---- MODULE Spec2Model ----
(***************************************************************************)
(* A model of the relay core (openaiResponsesRelayService.js) and of the   *)
(* request translator (translation/requestTranslator.js) with the helpers  *)
(* it calls (languageDetector, codeBlockProtector, translationService).    *)
(* The codeBlockProtector, the SentenceBuffer, the ResponseTranslator and   *)
(* the translationService are also driven on their own (SpecCB, SpecSB,    *)
(* SpecResp, SpecTS), as are testAccountConnection (SpecTC), the           *)
(* ResponseTranslator and translate under concurrent calls (SpecRC,        *)
(* SpecTX), the ResponseTranslator with a failing translator (SpecRF) and  *)
(* the two translators on texts made of code (SpecCO).                     *)
(*                                                                         *)
(* JavaScript values are tagged records, so that values of different JS    *)
(* types stay comparable: Null, Str(s), Num(n), NaN, Bool(b), objects      *)
(* ([obj |-> TRUE, ...]), arrays ([arr |-> <<...>>]) and readable streams  *)
(* ([pipe |-> TRUE, ...]).                                                 *)
(***************************************************************************)
EXTENDS Integers, Sequences, FiniteSets, TLC

VARIABLES
    \* ---- relay: one handleRequest invocation
    account,          \* the serving account given to handleRequest
    req,              \* the client request: headers' and body's session id, body
    pc,               \* position of handleRequest
    upstreamData,     \* requestOptions.data handed to axios (Null before)
    response,         \* the upstream response axios resolved with (Null before)
    errorData,        \* the errorData the status branch computed (Null before)
    events,           \* external calls and client writes, in program order
    aborted,          \* abortController.signal.aborted
    \* ---- relay: _handleStreamResponse closure state
    upstream,         \* bytes of the upstream body not yet delivered
    buffer,           \* let buffer
    scan,             \* let usageData, actualModel, rateLimitDetected,
                      \* rateLimitResetsInSeconds
    streamEnded,      \* let streamEnded
    resDestroyed,     \* res.destroyed
    \* ---- request translator: one translateRequest invocation
    rtAccount,        \* the account argument (Null: absent)
    heap,             \* the two envelopes: "in" (requestBody), "cp" (the deep copy)
    original,         \* the value of requestBody when translateRequest was called
    rtPc,             \* position of translateRequest
    rtBody,           \* the envelope translatedBody refers to: "in" or "cp"
    rtI,              \* index of the message the loop is at
    rtJ,              \* index of the block _translateContent is at (0: not in an array)
    rtBlocks,         \* translatedBlocks of the current message
    rtRet,            \* the envelope translateRequest returned ("" before)
    rtThrown,         \* translateRequest threw or rejected
    rtLog,            \* the calls of translationService.translate:
                      \* [i, j, text, failed, value]
    cache,            \* the translation cache, least recently used first
    \* ---- the translation library driven on its own
    config,           \* config.translation
    cb,               \* one extract / restore round of the codeBlockProtector
    sb,               \* a SentenceBuffer with what was added to and emitted by it
    resp,             \* a ResponseTranslator with what it received and wrote
    ts,               \* the translate calls made on the translationService
    tc                \* one testAccountConnection run and its responseStream

relayVars == <<account, req, pc, upstreamData, response, errorData, events, aborted,
               upstream, buffer, scan, streamEnded, resDestroyed>>

rtVars == <<rtAccount, heap, original, rtPc, rtBody, rtI, rtJ, rtBlocks, rtRet, rtThrown,
            rtLog, cache>>

libVars == <<config, cb, sb, resp, ts, tc>>

vars == <<relayVars, rtVars, libVars>>

-----------------------------------------------------------------------------
(* JavaScript values *)

Null == [null |-> TRUE]
NaN == [nan |-> TRUE]
Str(s) == [str |-> s]
Num(n) == [num |-> n]
Bool(b) == [bool |-> b]

IsString(v) == "str" \in DOMAIN v
IsPlainObject(v) == "obj" \in DOMAIN v
IsStream(v) == "pipe" \in DOMAIN v
\* typeof v === 'object' (null included)
TypeofObject(v) == IsPlainObject(v) \/ IsStream(v) \/ v = Null

\* JS truthiness
Truthy(v) ==
    /\ v # Null
    /\ v # NaN
    /\ v # Str(<<>>)
    /\ v # Num(0)
    /\ v # Bool(FALSE)

\* property access v.f: undefined (Null here) when v has no such property
Get(v, f) == IF f \in DOMAIN v THEN v[f] ELSE Null

\* A JS string is Str(s), s a sequence of tokens; a token stands for one
\* character or for a run of characters no operation looks inside.
WS == {" ", "n", "t"}      \* whitespace tokens: space, "\n", tab

RECURSIVE TrimStart(_)
TrimStart(s) == IF s # <<>> /\ Head(s) \in WS THEN TrimStart(Tail(s)) ELSE s

RECURSIVE TrimEnd(_)
TrimEnd(s) ==
    IF s # <<>> /\ s[Len(s)] \in WS THEN TrimEnd(SubSeq(s, 1, Len(s) - 1)) ELSE s

\* String.prototype.trim
Trim(s) == TrimEnd(TrimStart(s))

\* parseInt(v): the leading numeral of a string, NaN when there is none
ParseInt(v) ==
    IF "num" \in DOMAIN v THEN v
    ELSE IF IsString(v) /\ TrimStart(v.str) # <<>> /\ Head(TrimStart(v.str)) = "60"
         THEN Num(60)
    ELSE NaN

Min(a, b) == IF a <= b THEN a ELSE b

-----------------------------------------------------------------------------
(* Error bodies and the upstream response *)

\* {error: err, message: msg}
ErrObject(err, msg) == [obj |-> TRUE, error |-> err, message |-> msg]
\* the error member {message, type, resets_in_seconds, resets_in}
ErrMember(message, type, rsec, rin) ==
    [message |-> message, type |-> type, resets_in_seconds |-> rsec, resets_in |-> rin]
\* { error: { message } }, as the parse fallbacks build it
MessageOnly(message) == [obj |-> TRUE, error |-> [message |-> message]]

\* The body of a streamed (responseType 'stream') error response, as the text
\* Buffer.concat(chunks).toString() yields:
\*   json     JSON.stringify(obj)
\*   json_dm  JSON.stringify(obj) of an obj one of whose strings contains "data: "
\*   sse      "data: " + JSON.stringify(obj) + "\n\n"
\*   sse_done "data: [DONE]\n\n"
\*   sse_bad  "data: {oops\n\n"
\*   text     a text that is no JSON
\*   empty    ""
\* err: the stream emitted 'error' (the text is what arrived before it)
Wire(form, obj, err) == [form |-> form, obj |-> obj, err |-> err]
StreamOf(w) == [pipe |-> TRUE, wire |-> w]

FullResponse(w) ==
    CASE w.form = "empty" -> Str(<<>>)
      [] w.form = "text" -> Str(<<"Service unavailable">>)
      [] w.form = "sse_bad" -> Str(<<"data: ", "{oops", "n", "n">>)
      [] w.form = "sse_done" -> Str(<<"data: ", "[DONE]", "n", "n">>)
      [] OTHER -> Str(<<w.form, "json">>)

\* fullResponse.includes('data: ')
IncludesData(w) == w.form \in {"sse", "sse_done", "sse_bad", "json_dm"}

\* JSON.parse(fullResponse): [ok, value]
JSONParseFull(w) ==
    IF w.form \in {"json", "json_dm"} THEN [ok |-> TRUE, value |-> w.obj]
    ELSE [ok |-> FALSE, value |-> Null]

\* The first line "data: <jsonStr>" with jsonStr non-empty and not [DONE], parsed:
\* [found, ok, value]
FirstDataLine(w) ==
    CASE w.form = "sse" -> [found |-> TRUE, ok |-> TRUE, value |-> w.obj]
      [] w.form = "sse_bad" -> [found |-> TRUE, ok |-> FALSE, value |-> Null]
      [] OTHER -> [found |-> FALSE, ok |-> FALSE, value |-> Null]

-----------------------------------------------------------------------------
(* handleRequest: the pieces between two writes *)

AccountId == "acct-1"
ProviderTag == "openai-responses"

\* sessionHash: sha256 of headers.session_id || body.session_id, or null
SessionHash(r) ==
    LET sessionId == IF Truthy(r.headers.session_id) THEN r.headers.session_id
                     ELSE Get(r.body, "session_id")
    IN  IF Truthy(sessionId) THEN [sha256 |-> sessionId] ELSE Null

\* The calls and writes of one request, as they appear in events
MarkRateLimited(hash, resets, threw) ==
    [op |-> "markAccountRateLimited", args |-> <<AccountId, ProviderTag, hash, resets>>,
     threw |-> threw]
MarkUnauthorized(hash, reason, threw) ==
    [op |-> "markAccountUnauthorized", args |-> <<AccountId, ProviderTag, hash, reason>>,
     threw |-> threw]
ResJson(status, body) == [op |-> "res.json", status |-> status, body |-> body]
ResWrite(chunk) == [op |-> "res.write", chunk |-> chunk, by |-> "relay"]
ResEnd == [op |-> "res.end"]
\* 'end' emitted by the upstream body
UpstreamEnd == [op |-> "upstream.end"]
UpdateAccount(fields) == [op |-> "updateAccount", fields |-> fields]
\* 'close' emitted by the client request ("req") or the client response ("res")
\* while handleRequest was at the position at
CloseEvent(on, at) == [op |-> "close", on |-> on, at |-> at]
\* handleClientDisconnect aborting whatever the signal's state is
AbortAlways(ab) == <<[op |-> "abort"]>>
\* if (abortController && !abortController.signal.aborted) abortController.abort(),
\* lines 64-66 and 284-286
AbortOnce(ab) == IF ab THEN <<>> ELSE <<[op |-> "abort"]>>

\* _handle429Error, lines 713-792: [resetsInSeconds, errorData]
Parse429(data, isStream) ==
    LET w == data.wire
        fromSse == IF IncludesData(w) /\ FirstDataLine(w).ok
                   THEN FirstDataLine(w).value ELSE Null
        collected == IF Truthy(fromSse) THEN fromSse
                     ELSE IF JSONParseFull(w).ok THEN JSONParseFull(w).value ELSE Null
        ed == IF isStream /\ Truthy(data) /\ IsStream(data) THEN collected
              ELSE IF Truthy(data) /\ ~TypeofObject(data)
                   THEN MessageOnly(data)     \* JSON.parse of a non-JSON text throws
              ELSE IF Truthy(data) /\ TypeofObject(data) /\ ~IsStream(data) THEN data
              ELSE Null
        err == Get(ed, "error")
        resets == IF Truthy(ed) /\ Truthy(err)
                  THEN IF Truthy(Get(err, "resets_in_seconds"))
                       THEN err.resets_in_seconds
                       ELSE IF Truthy(Get(err, "resets_in"))
                            THEN ParseInt(err.resets_in)
                            ELSE Null
                  ELSE Null
    IN  IF isStream /\ Truthy(data) /\ IsStream(data) /\ data.wire.err
        THEN [resetsInSeconds |-> Null, errorData |-> Null]   \* reject -> catch (e)
        ELSE [resetsInSeconds |-> resets, errorData |-> ed]

\* The synthetic 429 body of handleRequest
Synthetic429(resets) ==
    [obj |-> TRUE,
     error |-> [message |-> Str(<<"Rate limit exceeded">>), type |-> Str(<<"rate_limit_error">>),
                code |-> Str(<<"rate_limit_exceeded">>), resets_in_seconds |-> resets]]

\* The 500 body of the catch block for an error without a response
Internal500(details) ==
    [obj |-> TRUE,
     error |-> [message |-> Str(<<"Internal server error">>), type |-> Str(<<"internal_error">>),
                details |-> details]]

\* errorData of the status >= 400 branch, lines 158-192
ParseErrorBody(data) ==
    IF Truthy(data) /\ IsStream(data)
    THEN LET w == data.wire
             full == FullResponse(w)
             fallback == MessageOnly(IF Truthy(full) THEN full ELSE Str(<<"Unknown error">>))
         IN  IF IncludesData(w)
             THEN IF FirstDataLine(w).found
                  THEN IF FirstDataLine(w).ok THEN FirstDataLine(w).value ELSE fallback
                  ELSE data                  \* no data line parsed: still the stream
             ELSE IF JSONParseFull(w).ok THEN JSONParseFull(w).value ELSE fallback
    ELSE data

\* reason of the 401 branches, lines 201-214 and 337-350:
\* [base, detail], detail Null when the default reason stands
\* reason with errorData.message taken before errorData.error.message
Reason401Swapped(ed) ==
    LET err == Get(ed, "error")
        detail ==
            IF ~Truthy(ed) THEN Null
            ELSE IF IsString(ed) /\ Trim(ed.str) # <<>> THEN Str(Trim(ed.str))
            ELSE IF IsString(Get(ed, "message")) /\ Trim(ed.message.str) # <<>>
                 THEN Str(Trim(ed.message.str))
            ELSE IF Truthy(err) /\ IsString(Get(err, "message")) /\ Trim(err.message.str) # <<>>
                 THEN Str(Trim(err.message.str))
            ELSE Null
    IN  [base |-> "401", detail |-> detail]

Reason401(ed) ==
    LET err == Get(ed, "error")
        detail ==
            IF ~Truthy(ed) THEN Null
            ELSE IF IsString(ed) /\ Trim(ed.str) # <<>> THEN Str(Trim(ed.str))
            ELSE IF Truthy(err) /\ IsString(Get(err, "message")) /\ Trim(err.message.str) # <<>>
                 THEN Str(Trim(err.message.str))
            ELSE IF IsString(Get(ed, "message")) /\ Trim(ed.message.str) # <<>>
                 THEN Str(Trim(ed.message.str))
            ELSE Null
    IN  [base |-> "401", detail |-> detail]

\* unauthorizedResponse, lines 230-246 and 366-382
UnauthorizedResponse(ed) ==
    IF ~Truthy(ed) \/ ~TypeofObject(ed) \/ IsStream(ed)
    THEN [obj |-> TRUE,
          error |-> [message |-> IF IsString(ed) /\ Trim(ed.str) # <<>>
                                 THEN Str(Trim(ed.str)) ELSE Str(<<"Unauthorized">>),
                     type |-> Str(<<"unauthorized">>), code |-> Str(<<"unauthorized">>)]]
    ELSE ed

\* The 401 branch answering the client before it marks the account
Handle401AnswerFirst(ed, hash, markThrows) ==
    <<ResJson(401, UnauthorizedResponse(ed)),
      MarkUnauthorized(hash, Reason401(ed), markThrows)>>

\* The 401 branch from the mark call to the response, lines 216-252 and 352-384;
\* a throwing markAccountUnauthorized is caught and logged
Handle401(ed, hash, markThrows) ==
    <<MarkUnauthorized(hash, Reason401(ed), markThrows),
      ResJson(401, UnauthorizedResponse(ed))>>

\* errorData of the catch block for an axios error with a response, lines 314-334
CatchErrorData(error) ==
    LET r == error.response
        default == [obj |-> TRUE,
                    error |-> [message |-> IF Truthy(r.statusText) THEN r.statusText
                                           ELSE Str(<<"Request failed">>),
                               type |-> Str(<<"api_error">>),
                               code |-> IF Truthy(error.code) THEN error.code
                                        ELSE Str(<<"unknown">>)]]
    IN  IF Truthy(r.data)
        THEN IF TypeofObject(r.data) /\ ~IsStream(r.data) THEN r.data
             ELSE IF IsString(r.data)      \* JSON.parse of a non-JSON text throws
                  THEN [default EXCEPT !.error.message = r.data]
             ELSE default
        ELSE default

\* res.json(v) throws on a value that cannot be serialised (a live stream)
JsonThrows(v) == IsStream(v)

\* The catch block of handleRequest from the network-error check on, lines 297-397
CatchBlock(error, headersSent, hash, markThrows) ==
    (IF error.code \in {Str(<<"ECONNREFUSED">>), Str(<<"ETIMEDOUT">>)}
     THEN <<UpdateAccount([status |-> "error", errorMessage |-> error.code])>>
     ELSE <<>>)
    \o
    (IF headersSent THEN <<ResEnd>>
     ELSE IF Truthy(error.response)
          THEN LET status == IF Truthy(error.response.status)
                             THEN error.response.status.num ELSE 500
                   ed == CatchErrorData(error)
               IN  IF status = 401 THEN Handle401(ed, hash, markThrows)
                   ELSE <<ResJson(status, ed)>>
          ELSE <<ResJson(500, Internal500(error.message))>>)

\* An error thrown by a collaborator or by the runtime: no code, no response
PlainError(message) == [message |-> Str(<<message>>), code |-> Null, response |-> Null]

-----------------------------------------------------------------------------
(* _handleStreamResponse: the SSE scanner *)

\* The SSE payloads the model's upstream sends, by token: the JSON after "data:"
EventData ==
    [tok \in {"U1", "U2", "U3", "RL30", "RL0", "UL", "ERR", "X"} |->
        CASE tok = "U1" ->
                [type |-> "response.completed", error |-> Null,
                 response |-> [model |-> Str(<<"gpt-5">>),
                               usage |-> [obj |-> TRUE, input_tokens |-> Num(10),
                                          output_tokens |-> Num(4),
                                          input_tokens_details |-> [cached_tokens |-> Num(3)],
                                          total_tokens |-> Null]]]
          [] tok = "U2" ->
                [type |-> "response.completed", error |-> Null,
                 response |-> [model |-> Null,
                               usage |-> [obj |-> TRUE, input_tokens |-> Num(2),
                                          output_tokens |-> Num(1),
                                          input_tokens_details |-> [cached_tokens |-> Num(5)],
                                          total_tokens |-> Num(3)]]]
          [] tok = "U3" ->
                [type |-> "response.completed", error |-> Null,
                 response |-> [model |-> Null,
                               usage |-> [obj |-> TRUE, input_tokens |-> Num(0),
                                          prompt_tokens |-> Num(7),
                                          completion_tokens |-> Num(2)]]]
          [] tok = "RL30" ->
                [type |-> "error", response |-> Null,
                 error |-> [type |-> "rate_limit_error", resets_in_seconds |-> Num(30)]]
          [] tok = "RL0" ->
                [type |-> "error", response |-> Null,
                 error |-> [type |-> "rate_limit_exceeded", resets_in_seconds |-> Num(0)]]
          [] tok = "UL" ->
                [type |-> "error", response |-> Null,
                 error |-> [type |-> "usage_limit_reached", resets_in_seconds |-> Null]]
          [] tok = "ERR" ->
                [type |-> "error", response |-> Null,
                 error |-> [type |-> "server_error", resets_in_seconds |-> Num(30)]]
          [] OTHER ->
                [type |-> "response.output_text.delta", response |-> Null, error |-> Null]]

\* The scanner's view of the closure: what parseSSEForUsage assigns
ScanInit == [usageData |-> Null, actualModel |-> Null,
             rateLimitDetected |-> FALSE, rateLimitResetsInSeconds |-> Null]

\* The scanner keeping the usage of the first response.completed event
ScanEventKeepFirst(e, st) ==
    LET s1 == IF e.type = "response.completed" /\ Truthy(e.response)
              THEN [st EXCEPT
                      !.actualModel = IF Truthy(e.response.model) THEN e.response.model ELSE @,
                      !.usageData = IF Truthy(e.response.usage) /\ ~Truthy(@)
                                    THEN e.response.usage ELSE @]
              ELSE st
    IN  IF Truthy(e.error)
           /\ e.error.type \in {"rate_limit_error", "usage_limit_reached", "rate_limit_exceeded"}
        THEN [s1 EXCEPT
                !.rateLimitDetected = TRUE,
                !.rateLimitResetsInSeconds =
                    IF Truthy(e.error.resets_in_seconds) THEN e.error.resets_in_seconds ELSE @]
        ELSE s1

\* One parsed eventData, lines 438-473
ScanEvent(e, st) ==
    LET s1 == IF e.type = "response.completed" /\ Truthy(e.response)
              THEN [st EXCEPT
                      !.actualModel = IF Truthy(e.response.model) THEN e.response.model ELSE @,
                      !.usageData = IF Truthy(e.response.usage) THEN e.response.usage ELSE @]
              ELSE st
    IN  IF Truthy(e.error)
           /\ e.error.type \in {"rate_limit_error", "usage_limit_reached", "rate_limit_exceeded"}
        THEN [s1 EXCEPT
                !.rateLimitDetected = TRUE,
                !.rateLimitResetsInSeconds =
                    IF Truthy(e.error.resets_in_seconds) THEN e.error.resets_in_seconds ELSE @]
        ELSE s1

\* One line, lines 429-477: "d" is the prefix "data:"; a payload is JSON iff it is
\* one payload token; "[DONE]" is skipped; a parse error is ignored
ScanLine(line, st) ==
    IF line # <<>> /\ Head(line) = "d"
    THEN LET jsonStr == Trim(Tail(line))
         IN  IF jsonStr = <<"[DONE]">> THEN st
             ELSE IF Len(jsonStr) = 1 /\ jsonStr[1] \in DOMAIN EventData
                  THEN ScanEvent(EventData[jsonStr[1]], st)
             ELSE st
    ELSE st

\* The index of the first occurrence of sep in s from position i on, 0 when none
RECURSIVE IndexOf(_, _, _)
IndexOf(s, sep, i) ==
    IF i + Len(sep) - 1 > Len(s) THEN 0
    ELSE IF SubSeq(s, i, i + Len(sep) - 1) = sep THEN i
    ELSE IndexOf(s, sep, i + 1)

\* String.prototype.split(sep)
RECURSIVE Split(_, _)
Split(s, sep) ==
    LET i == IndexOf(s, sep, 1)
    IN  IF i = 0 THEN <<s>>
        ELSE <<SubSeq(s, 1, i - 1)>> \o Split(SubSeq(s, i + Len(sep), Len(s)), sep)

RECURSIVE ScanLines(_, _)
ScanLines(lines, st) ==
    IF lines = <<>> THEN st ELSE ScanLines(Tail(lines), ScanLine(Head(lines), st))

\* parseSSEForUsage(data), lines 425-479
ParseSSEForUsage(data, st) == ScanLines(Split(data, <<"n">>), st)

RECURSIVE ScanEvents(_, _)
ScanEvents(evs, st) ==
    IF evs = <<>> THEN st
    ELSE ScanEvents(Tail(evs),
                    IF Trim(Head(evs)) # <<>> THEN ParseSSEForUsage(Head(evs), st) ELSE st)

\* The buffer handling that forgets the tail after the last terminator
FeedDropTail(buf, chunk, st) ==
    LET b == buf \o chunk
    IN  IF IndexOf(b, <<"n", "n">>, 1) # 0
        THEN LET evs == Split(b, <<"n", "n">>)
             IN  [buffer |-> <<>>,
                  st |-> ScanEvents(SubSeq(evs, 1, Len(evs) - 1), st)]
        ELSE [buffer |-> b, st |-> st]

\* The buffer handling of the data handler, lines 492-504: [buffer, st]
Feed(buf, chunk, st) ==
    LET b == buf \o chunk
    IN  IF IndexOf(b, <<"n", "n">>, 1) # 0
        THEN LET evs == Split(b, <<"n", "n">>)
             IN  [buffer |-> evs[Len(evs)],
                  st |-> ScanEvents(SubSeq(evs, 1, Len(evs) - 1), st)]
        ELSE [buffer |-> b, st |-> st]

-----------------------------------------------------------------------------
(* Usage accounting *)

\* a || b
Or(a, b) == IF Truthy(a) THEN a ELSE b

\* extractCacheCreationTokens, lines 12-35
RECURSIVE FirstNumeric(_)
FirstNumeric(candidates) ==
    IF candidates = <<>> THEN Num(0)
    ELSE IF Head(candidates) # Null /\ Head(candidates) # Str(<<>>)
            /\ "num" \in DOMAIN Head(candidates)
         THEN Head(candidates)
    ELSE FirstNumeric(Tail(candidates))

extractCacheCreationTokens(usageData) ==
    IF ~Truthy(usageData) \/ ~TypeofObject(usageData) THEN Num(0)
    ELSE LET details == Or(Get(usageData, "input_tokens_details"),
                           Or(Get(usageData, "prompt_tokens_details"), [obj |-> TRUE]))
         IN  FirstNumeric(<<Get(details, "cache_creation_input_tokens"),
                            Get(details, "cache_creation_tokens"),
                            Get(usageData, "cache_creation_input_tokens"),
                            Get(usageData, "cache_creation_tokens")>>)

\* The numbers without the Math.max(0, ...) of lines 528 and 657
UsageNumbersNoMax(usageData) ==
    LET totalInputTokens ==
            Or(Get(usageData, "input_tokens"), Or(Get(usageData, "prompt_tokens"), Num(0))).num
        outputTokens ==
            Or(Get(usageData, "output_tokens"),
               Or(Get(usageData, "completion_tokens"), Num(0))).num
        cacheReadTokens ==
            Or(Get(Get(usageData, "input_tokens_details"), "cached_tokens"), Num(0)).num
        cacheCreateTokens == extractCacheCreationTokens(usageData).num
    IN  [actualInputTokens |-> totalInputTokens - cacheReadTokens,
         outputTokens |-> outputTokens,
         cacheCreateTokens |-> cacheCreateTokens,
         cacheReadTokens |-> cacheReadTokens,
         totalTokens |-> Or(Get(usageData, "total_tokens"),
                            Num(totalInputTokens + outputTokens + cacheCreateTokens)).num]

\* The numbers of lines 522-533 and 651-661
UsageNumbers(usageData) ==
    LET totalInputTokens ==
            Or(Get(usageData, "input_tokens"), Or(Get(usageData, "prompt_tokens"), Num(0))).num
        outputTokens ==
            Or(Get(usageData, "output_tokens"),
               Or(Get(usageData, "completion_tokens"), Num(0))).num
        cacheReadTokens ==
            Or(Get(Get(usageData, "input_tokens_details"), "cached_tokens"), Num(0)).num
        cacheCreateTokens == extractCacheCreationTokens(usageData).num
        diff == totalInputTokens - cacheReadTokens
    IN  [actualInputTokens |-> IF diff > 0 THEN diff ELSE 0,
         outputTokens |-> outputTokens,
         cacheCreateTokens |-> cacheCreateTokens,
         cacheReadTokens |-> cacheReadTokens,
         totalTokens |-> Or(Get(usageData, "total_tokens"),
                            Num(totalInputTokens + outputTokens + cacheCreateTokens)).num]

RecordUsage(n, model) ==
    [op |-> "recordUsage",
     args |-> <<"key-1", n.actualInputTokens, n.outputTokens, n.cacheCreateTokens,
                n.cacheReadTokens, model, AccountId>>]
UpdateAccountUsage(total) == [op |-> "updateAccountUsage", args |-> <<AccountId, total>>]
UpdateUsageQuota(n, model) ==
    [op |-> "updateUsageQuota",
     args |-> <<AccountId, [input_tokens |-> n.actualInputTokens,
                            output_tokens |-> n.outputTokens,
                            cache_creation_input_tokens |-> n.cacheCreateTokens,
                            cache_read_input_tokens |-> n.cacheReadTokens,
                            model |-> model]>>]

\* The usage block of the end handler and of _handleNormalResponse,
\* lines 519-570 and 648-698
UsageCalls(usageData, model, acct) ==
    IF Truthy(usageData)
    THEN LET n == UsageNumbers(usageData)
         IN  <<RecordUsage(n, model), UpdateAccountUsage(n.totalTokens)>>
             \o (IF Truthy(acct.dailyQuota) /\ acct.dailyQuota.num > 0
                 THEN <<UpdateUsageQuota(n, model)>> ELSE <<>>)
    ELSE <<>>

-----------------------------------------------------------------------------
(* The inputs the model draws from *)

MaxChunk == 3      \* the longest chunk the upstream body is delivered in

Accounts ==
    {[id |-> AccountId, enableTranslation |-> Bool(TRUE), dailyQuota |-> Num(10)],
     [id |-> AccountId, enableTranslation |-> Bool(FALSE), dailyQuota |-> Null],
     [id |-> AccountId, enableTranslation |-> Str(<<"true">>), dailyQuota |-> Num(0)]}

\* messages of the client bodies: one user message, Chinese ("z") or English ("a")
ClientMessages ==
    {[arr |-> <<[obj |-> TRUE, role |-> Str(<<"user">>), content |-> Str(c)]>>] :
        c \in {<<"z", "z">>, <<"a", " ", "a">>}}

Requests ==
    {[headers |-> [session_id |-> h],
      body |-> [obj |-> TRUE, model |-> Str(<<"gpt-5-codex">>), stream |-> Bool(st),
                session_id |-> b, messages |-> m]] :
        h \in {Null, Str(<<"sess-h">>)}, b \in {Null, Str(<<"sess-b">>)},
        st \in BOOLEAN, m \in ClientMessages}

Objs401 ==
    {ErrObject(e, m) :
        e \in {Null} \cup {ErrMember(em, Null, Null, Null) :
                            em \in {Null, Str(<<" ">>), Str(<<" ", "bad key", " ">>)}},
        m \in {Null, Str(<<>>), Str(<<"expired">>)}}

Objs429 ==
    {ErrObject(e, Null) :
        e \in {Null} \cup {ErrMember(Str(<<"slow down">>), Str(<<"rate_limit_error">>), rs, ri) :
                            rs \in {Null, Num(0), Num(120)},
                            ri \in {Null, Str(<<"60">>), Str(<<"soon">>)}}}

Objs5xx == {ErrObject(ErrMember(Str(<<"overloaded">>), Str(<<"server_error">>), Null, Null), Null)}

ErrorObjs(status) ==
    CASE status = 401 -> Objs401 [] status = 429 -> Objs429 [] OTHER -> Objs5xx

\* response.data of a non-streamed (responseType 'json') error response
ErrorDatas(status) ==
    ErrorObjs(status) \cup {Null, Str(<<>>), Str(<<" ">>), Str(<<" ", "denied">>)}

\* the body of a streamed error response
ErrorWires(status) ==
    {Wire(f, o, FALSE) : f \in {"json", "sse"}, o \in ErrorObjs(status)}
    \cup {Wire(f, CHOOSE o \in ErrorObjs(status) : Truthy(o.error), e) :
            f \in {"json", "json_dm"}, e \in BOOLEAN}
    \cup {Wire(f, Null, e) : f \in {"sse_done", "sse_bad", "text", "empty"}, e \in BOOLEAN}

\* the bodies of 2xx streamed responses: "d" is "data:", "n" is "\n"
Streams ==
    {<<"d", "U1", "n", "n", "d", "[DONE]", "n", "n">>,
     <<"d", "X", "n", "n", "d", " ", "RL30", "n", "n">>,
     <<"d", "UL">>,
     <<"d", "U1", "n", "n", "d", "U2", "n", "n">>,
     <<"d", "ERR", "n", "d", "RL30", "n", "n", "n", "d", "U2">>,
     <<"X", "n", "n", "d", "X", "X", "n", "n">>,
     <<"d", "U3", "n", "n">>,
     <<"d", "RL0", "n", "n">>}

\* response.data of a non-streamed 2xx response
OkDatas ==
    {[obj |-> TRUE, model |-> Str(<<"gpt-5">>), usage |-> EventData["U1"].response.usage],
     [obj |-> TRUE, response |-> EventData["U2"].response],
     [obj |-> TRUE, usage |-> EventData["U3"].response.usage],
     [obj |-> TRUE, output |-> Str(<<"hi">>)]}

Responses(isStream) ==
    UNION {{[status |-> st, data |-> d] :
                d \in IF isStream THEN {StreamOf(w) : w \in ErrorWires(st)}
                      ELSE ErrorDatas(st)} :
           st \in {401, 429, 500}}
    \cup
    {[status |-> 200, data |-> d] :
        d \in IF isStream THEN {[pipe |-> TRUE, toks |-> t] : t \in Streams} ELSE OkDatas}

\* what axios rejects with
AxiosErrors ==
    {[message |-> Str(<<"connect failed">>), code |-> Str(<<c>>), response |-> Null] :
        c \in {"ECONNREFUSED", "ETIMEDOUT", "ECONNRESET"}}
    \cup
    {[message |-> Str(<<"bad response">>), code |-> Str(<<"ERR_BAD_RESPONSE">>),
      response |-> [status |-> Num(st), statusText |-> Str(<<"Unauthorized">>), data |-> d]] :
        st \in {401, 502},
        d \in {Null, Str(<<" ", "denied">>), StreamOf(Wire("empty", Null, FALSE)),
               ErrObject(Null, Str(<<"expired">>)),
               ErrObject(ErrMember(Str(<<" ", "bad key", " ">>), Null, Null, Null),
                         Str(<<"expired">>))}}

Canceled == [message |-> Str(<<"canceled">>), code |-> Str(<<"ERR_CANCELED">>), response |-> Null]

-----------------------------------------------------------------------------
(* languageDetector and codeBlockProtector: texts are sequences of the tokens   *)
(* "z" (a character in U+4E00..U+9FA5), "a" (a Latin letter), "e" (a Latin      *)
(* letter a translation produced), " " and "n" (white space), "BT" (a back-tick) *)
(* and the placeholder keys.                                                    *)

\* containsChinese taking every string for Chinese
containsChineseAlways(text) == Truthy(text) /\ IsString(text)

\* containsChinese, languageDetector.js lines 23-28
containsChinese(text) ==
    /\ Truthy(text)
    /\ IsString(text)
    /\ \E i \in 1..Len(text.str) : text.str[i] = "z"

Fence == <<"BT", "BT", "BT">>
CodeBlockKey(index) == "__CODE_BLOCK_" \o ToString(index) \o "__"
InlineCodeKey(index) == "__INLINE_CODE_" \o ToString(index) \o "__"

\* text.replace(codeBlockRegex, ...), codeBlockProtector.js lines 29-33:
\* the fenced-block pattern (three back-ticks, any text, three back-ticks), leftmost match and shortest body first
RECURSIVE ExtractFenced(_, _)
ExtractFenced(s, index) ==
    LET i == IndexOf(s, Fence, 1)
        j == IF i = 0 THEN 0 ELSE IndexOf(s, Fence, i + 3)
    IN  IF j = 0 THEN [clean |-> s, placeholders |-> <<>>, index |-> index]
        ELSE LET rest == ExtractFenced(SubSeq(s, j + 3, Len(s)), index + 1)
             IN  [clean |-> SubSeq(s, 1, i - 1) \o <<CodeBlockKey(index)>> \o rest.clean,
                  placeholders |-> <<[key |-> CodeBlockKey(index), value |-> SubSeq(s, i, j + 2)]>>
                                   \o rest.placeholders,
                  index |-> rest.index]

\* The end of the match of the inline-code pattern (a back-tick, one or more other
\* characters, a back-tick) starting at i, 0 when there is none
InlineEnd(s, i) ==
    IF s[i] # "BT" THEN 0
    ELSE LET k == IndexOf(s, <<"BT">>, i + 1)
         IN  IF k > i + 1 THEN k ELSE 0

\* cleanText.replace(inlineCodeRegex, ...), lines 36-40
RECURSIVE ExtractInline(_, _, _)
ExtractInline(s, from, index) ==
    IF from > Len(s) THEN [clean |-> <<>>, placeholders |-> <<>>, index |-> index]
    ELSE LET k == InlineEnd(s, from)
         IN  IF k = 0
             THEN LET rest == ExtractInline(s, from + 1, index)
                  IN  [rest EXCEPT !.clean = <<s[from]>> \o @]
             ELSE LET rest == ExtractInline(s, k + 1, index + 1)
                  IN  [clean |-> <<InlineCodeKey(index)>> \o rest.clean,
                       placeholders |-> <<[key |-> InlineCodeKey(index),
                                           value |-> SubSeq(s, from, k)]>>
                                        \o rest.placeholders,
                       index |-> rest.index]

\* placeholders[key] = match on an insertion-ordered object
RECURSIVE PutAll(_, _)
PutAll(map, entries) ==
    IF entries = <<>> THEN map
    ELSE LET e == Head(entries)
         IN  PutAll(IF \E i \in 1..Len(map) : map[i].key = e.key
                    THEN [i \in 1..Len(map) |-> IF map[i].key = e.key THEN e ELSE map[i]]
                    ELSE Append(map, e),
                    Tail(entries))

\* extract, lines 20-43: [cleanText, placeholders]
extract(text) ==
    IF ~Truthy(text) \/ ~IsString(text)
    THEN [cleanText |-> IF Truthy(text) THEN text ELSE Str(<<>>), placeholders |-> <<>>]
    ELSE LET f == ExtractFenced(text.str, 0)
             g == ExtractInline(f.clean, 1, f.index)
         IN  [cleanText |-> Str(g.clean),
              placeholders |-> PutAll(f.placeholders, g.placeholders)]

\* result.split(key).join(value)
RECURSIVE ReplaceAll(_, _, _)
ReplaceAll(s, key, value) ==
    IF s = <<>> THEN <<>>
    ELSE (IF Head(s) = key THEN value ELSE <<Head(s)>>) \o ReplaceAll(Tail(s), key, value)

RECURSIVE RestoreAll(_, _)
RestoreAll(s, placeholders) ==
    IF placeholders = <<>> THEN s
    ELSE RestoreAll(ReplaceAll(s, Head(placeholders).key, Head(placeholders).value),
                    Tail(placeholders))

\* restore, lines 51-69
restore(translatedText, placeholders) ==
    IF ~Truthy(translatedText) \/ ~IsString(translatedText)
    THEN IF Truthy(translatedText) THEN translatedText ELSE Str(<<>>)
    ELSE IF placeholders = <<>> THEN translatedText
    ELSE Str(RestoreAll(translatedText.str, placeholders))

-----------------------------------------------------------------------------
(* translationService.translate *)

CacheSize == 2     \* config.translation.cacheSize of the model

\* _getCacheKey, translationService.js lines 310-317: the hash of
\* "<sourceLang>:<targetLang>:<text>", kept as the triple it hashes
CacheKey(text, sourceLang, targetLang) == <<sourceLang, targetLang, text>>

\* LRUCache.get: the value, refreshed as most recently used; Null on a miss
CacheGet(c, key) ==
    IF \E i \in 1..Len(c) : c[i].key = key
    THEN LET i == CHOOSE i \in 1..Len(c) : c[i].key = key
         IN  [value |-> c[i].value,
              cache |-> SelectSeq(c, LAMBDA e : e.key # key) \o <<c[i]>>]
    ELSE [value |-> Null, cache |-> c]

\* LRUCache.set: insert or refresh, then evict the least recently used entry
CacheSet(c, key, value) ==
    LET c1 == SelectSeq(c, LAMBDA e : e.key # key) \o <<[key |-> key, value |-> value]>>
    IN  IF Len(c1) > CacheSize THEN Tail(c1) ELSE c1

\* What the translation account answers, or that the request fails
Replies == {"faithful", "lossy", "blank", "fail"}

IsPlaceholderKey(tok) ==
    tok \notin {"z", "a", "e", " ", "n", "t", "BT", ".", "?", "!", "ZS", "ZQ", "ZE"}

\* message.content of the translator's answer to the prompt for text
ReplyContent(text, reply) ==
    CASE reply = "faithful" -> [i \in 1..Len(text) |-> IF text[i] = "z" THEN "e" ELSE text[i]]
      [] reply = "lossy" ->
            SelectSeq([i \in 1..Len(text) |-> IF text[i] = "z" THEN "e" ELSE text[i]],
                      LAMBDA tok : ~IsPlaceholderKey(tok))
      [] OTHER -> <<" ">>

\* message.content of the translator's answer when asked for Chinese: a faithful
\* answer turns every Latin letter into a Chinese character
ReplyContentZh(text, reply) ==
    CASE reply = "faithful" ->
            [i \in 1..Len(text) |-> IF text[i] \in {"a", "e"} THEN "z" ELSE text[i]]
      [] reply = "lossy" ->
            SelectSeq([i \in 1..Len(text) |-> IF text[i] \in {"a", "e"} THEN "z" ELSE text[i]],
                      LAMBDA tok : ~IsPlaceholderKey(tok))
      [] OTHER -> <<" ">>

\* The answer to the prompt built for targetLang, lines 124-131
ReplyFor(text, targetLang, reply) ==
    IF targetLang = "zh" THEN ReplyContentZh(text, reply) ELSE ReplyContent(text, reply)

LanguageNames == {"zh", "en"}

\* translate without its validation of the language codes of lines 62-64
translateNoLanguageValidation(text, sourceLang, targetLang, reply, c) ==
    IF ~Truthy(text) \/ Trim(text.str) = <<>>
    THEN [threw |-> FALSE, value |-> text, cache |-> c, api |-> FALSE, read |-> FALSE]
    ELSE IF sourceLang = targetLang
    THEN [threw |-> FALSE, value |-> text, cache |-> c, api |-> FALSE, read |-> FALSE]
    ELSE LET key == CacheKey(text, sourceLang, targetLang)
             got == CacheGet(c, key)
         IN  IF Truthy(got.value)
             THEN [threw |-> FALSE, value |-> got.value, cache |-> got.cache, api |-> FALSE,
                   read |-> TRUE]
             ELSE IF reply = "fail" \/ ReplyFor(text.str, targetLang, reply) = <<>>
             THEN [threw |-> TRUE, value |-> Null, cache |-> got.cache, api |-> TRUE,
                   read |-> TRUE]
             ELSE LET translated == Str(Trim(ReplyFor(text.str, targetLang, reply)))
                  IN  [threw |-> FALSE, value |-> translated,
                       cache |-> CacheSet(got.cache, key, translated), api |-> TRUE,
                       read |-> TRUE]

\* translate without its same-language shortcut of lines 67-69
translateNoSameLanguageCheck(text, sourceLang, targetLang, reply, c) ==
    IF ~Truthy(text) \/ Trim(text.str) = <<>>
    THEN [threw |-> FALSE, value |-> text, cache |-> c, api |-> FALSE, read |-> FALSE]
    ELSE IF sourceLang \notin LanguageNames \/ targetLang \notin LanguageNames
    THEN [threw |-> TRUE, value |-> Null, cache |-> c, api |-> FALSE, read |-> FALSE]
    ELSE LET key == CacheKey(text, sourceLang, targetLang)
             got == CacheGet(c, key)
         IN  IF Truthy(got.value)
             THEN [threw |-> FALSE, value |-> got.value, cache |-> got.cache, api |-> FALSE,
                   read |-> TRUE]
             ELSE IF reply = "fail" \/ ReplyFor(text.str, targetLang, reply) = <<>>
             THEN [threw |-> TRUE, value |-> Null, cache |-> got.cache, api |-> TRUE,
                   read |-> TRUE]
             ELSE LET translated == Str(Trim(ReplyFor(text.str, targetLang, reply)))
                  IN  [threw |-> FALSE, value |-> translated,
                       cache |-> CacheSet(got.cache, key, translated), api |-> TRUE,
                       read |-> TRUE]

\* translate, translationService.js lines 55-112, with _callTranslationAPI,
\* translate storing the source text under the key when the upstream call fails
translateCachesFailure(text, sourceLang, targetLang, reply, c) ==
    IF ~Truthy(text) \/ Trim(text.str) = <<>>
    THEN [threw |-> FALSE, value |-> text, cache |-> c, api |-> FALSE, read |-> FALSE]
    ELSE IF sourceLang \notin LanguageNames \/ targetLang \notin LanguageNames
    THEN [threw |-> TRUE, value |-> Null, cache |-> c, api |-> FALSE, read |-> FALSE]
    ELSE IF sourceLang = targetLang
    THEN [threw |-> FALSE, value |-> text, cache |-> c, api |-> FALSE, read |-> FALSE]
    ELSE LET key == CacheKey(text, sourceLang, targetLang)
             got == CacheGet(c, key)
         IN  IF Truthy(got.value)
             THEN [threw |-> FALSE, value |-> got.value, cache |-> got.cache, api |-> FALSE,
                   read |-> TRUE]
             ELSE IF reply = "fail" \/ ReplyFor(text.str, targetLang, reply) = <<>>
             THEN [threw |-> TRUE, value |-> Null, cache |-> CacheSet(got.cache, key, text),
                   api |-> TRUE, read |-> TRUE]
             ELSE LET translated == Str(Trim(ReplyFor(text.str, targetLang, reply)))
                  IN  [threw |-> FALSE, value |-> translated,
                       cache |-> CacheSet(got.cache, key, translated), api |-> TRUE,
                       read |-> TRUE]

\* lines 122-145: [threw, value, cache, api, read], api telling that the upstream
\* translator was asked and read that cache.get was called
translate(text, sourceLang, targetLang, reply, c) ==
    IF ~Truthy(text) \/ Trim(text.str) = <<>>
    THEN [threw |-> FALSE, value |-> text, cache |-> c, api |-> FALSE, read |-> FALSE]
    ELSE IF sourceLang \notin LanguageNames \/ targetLang \notin LanguageNames
    THEN [threw |-> TRUE, value |-> Null, cache |-> c, api |-> FALSE, read |-> FALSE]
    ELSE IF sourceLang = targetLang
    THEN [threw |-> FALSE, value |-> text, cache |-> c, api |-> FALSE, read |-> FALSE]
    ELSE LET key == CacheKey(text, sourceLang, targetLang)
             got == CacheGet(c, key)
         IN  IF Truthy(got.value)
             THEN [threw |-> FALSE, value |-> got.value, cache |-> got.cache, api |-> FALSE,
                   read |-> TRUE]
             ELSE IF reply = "fail" \/ ReplyFor(text.str, targetLang, reply) = <<>>
             THEN [threw |-> TRUE, value |-> Null, cache |-> got.cache, api |-> TRUE,
                   read |-> TRUE]
             ELSE LET translated == Str(Trim(ReplyFor(text.str, targetLang, reply)))
                  IN  [threw |-> FALSE, value |-> translated,
                       cache |-> CacheSet(got.cache, key, translated), api |-> TRUE,
                       read |-> TRUE]

-----------------------------------------------------------------------------
(* requestTranslator *)

Arr(items) == [arr |-> items]
IsArray(v) == "arr" \in DOMAIN v

\* _translateText without its catch: a failing translation propagates
TranslateTextRethrow(text, reply, c) ==
    IF ~Truthy(text) THEN [threw |-> FALSE, value |-> text, cache |-> c, called |-> FALSE,
                           failed |-> FALSE]
    ELSE IF ~IsString(text) THEN [threw |-> TRUE, value |-> text, cache |-> c,
                                  called |-> FALSE, failed |-> FALSE]
    ELSE IF Trim(text.str) = <<>> \/ ~containsChinese(text) \/ Trim(extract(text).cleanText.str) = <<>>
    THEN [threw |-> FALSE, value |-> text, cache |-> c, called |-> FALSE, failed |-> FALSE]
    ELSE LET x == extract(text)
             t == translate(x.cleanText, "zh", "en", reply, c)
         IN  [threw |-> t.threw,
              value |-> IF t.threw THEN text ELSE restore(t.value, x.placeholders),
              cache |-> t.cache, called |-> TRUE, failed |-> t.threw]

\* _translateText, requestTranslator.js lines 133-179:
\* [threw, value, cache, called, failed]; called: translationService.translate was
\* called, failed: it threw. text.trim() of line 135 is outside the try: a text that
\* is no string throws
TranslateText(text, reply, c) ==
    IF ~Truthy(text) THEN [threw |-> FALSE, value |-> text, cache |-> c, called |-> FALSE,
                           failed |-> FALSE]
    ELSE IF ~IsString(text) THEN [threw |-> TRUE, value |-> text, cache |-> c,
                                  called |-> FALSE, failed |-> FALSE]
    ELSE IF Trim(text.str) = <<>> THEN [threw |-> FALSE, value |-> text, cache |-> c,
                                        called |-> FALSE, failed |-> FALSE]
    ELSE IF ~containsChinese(text) THEN [threw |-> FALSE, value |-> text, cache |-> c,
                                         called |-> FALSE, failed |-> FALSE]
    ELSE LET x == extract(text)
         IN  IF Trim(x.cleanText.str) = <<>>
             THEN [threw |-> FALSE, value |-> text, cache |-> c, called |-> FALSE,
                   failed |-> FALSE]
             ELSE LET t == translate(x.cleanText, "zh", "en", reply, c)
                  IN  [threw |-> FALSE,
                       value |-> IF t.threw THEN text ELSE restore(t.value, x.placeholders),
                       cache |-> t.cache, called |-> TRUE, failed |-> t.threw]

\* The deep copy of line 38 aliasing the input instead
AliasInput(h) == [heap |-> h, ref |-> "in"]

\* JSON.parse(JSON.stringify(v)): NaN becomes null, arrays and objects are rebuilt
\* member by member, strings, numbers, booleans and null are kept
RECURSIVE JsonRoundTrip(_)
JsonRoundTrip(v) ==
    IF v = NaN THEN Null
    ELSE IF IsArray(v) THEN Arr([i \in 1..Len(v.arr) |-> JsonRoundTrip(v.arr[i])])
    ELSE IF IsPlainObject(v)
         THEN [f \in DOMAIN v |-> IF f = "obj" THEN TRUE ELSE JsonRoundTrip(v[f])]
    ELSE v

\* line 38: translatedBody is a new envelope, the round trip of requestBody
DeepCopy(h) == [heap |-> [h EXCEPT !.cp = JsonRoundTrip(h.in)], ref |-> "cp"]

\* The catch of translateRequest, lines 71-82: the original body is returned
CatchReturn == [ret |-> "in", thrown |-> FALSE]

\* line 105: block.type === 'text' && block.text
IsTranslatableBlock(block) ==
    Get(block, "type") = Str(<<"text">>) /\ Truthy(Get(block, "text"))

\* line 24 skipping only on the literal false
IsTranslationEnabledUnlessFalse(acct) == Get(acct, "enableTranslation") # Bool(FALSE)

\* line 24: account?.enableTranslation, by truthiness
IsTranslationEnabled(acct) == Truthy(Get(acct, "enableTranslation"))

\* line 45 taking every message
IsUserMessageAny(message) == TRUE

\* line 45: message.role === 'user'
IsUserMessage(message) == Get(message, "role") = Str(<<"user">>)

-----------------------------------------------------------------------------
(* The inputs of translateRequest *)

MaxMessages == 2     \* the longest messages array

TextBlock(t) == [obj |-> TRUE, type |-> Str(<<"text">>), text |-> t]
ToolResult(c) == [obj |-> TRUE, type |-> Str(<<"tool_result">>),
                  tool_use_id |-> Str(<<"toolu_01">>), content |-> c]
ToolUse == [obj |-> TRUE, type |-> Str(<<"tool_use">>), id |-> Str(<<"toolu_01">>),
            name |-> Str(<<"z", "a">>)]
Image == [obj |-> TRUE, type |-> Str(<<"image">>), source |-> Str(<<"z", "base64">>)]
Message(role, content) == [obj |-> TRUE, role |-> Str(<<role>>), content |-> content]

Zh == Str(<<"z", "z">>)
ZhCode == Str(<<"z", "BT", "a", "BT">>)
ZhInCode == Str(<<"BT", "z", "BT", " ">>)
En == Str(<<"a", " ", "a">>)

RtMessages ==
    {Message("user", Zh), Message("user", ZhCode), Message("user", ZhInCode),
     Message("user", En), Message("user", Null),
     Message("user", Arr(<<TextBlock(Zh), ToolResult(Zh)>>)),
     Message("user", Arr(<<Image, TextBlock(En), TextBlock(ZhCode)>>)),
     Message("user", Arr(<<TextBlock(Zh), Null>>)),
     Message("user", Arr(<<TextBlock(Num(5))>>)),
     Message("assistant", Zh),
     Message("assistant", Arr(<<TextBlock(Zh), ToolUse>>)),
     Message("system", Zh),
     Null}

Envelope(messages) ==
    [obj |-> TRUE, model |-> Str(<<"claude-sonnet-4">>), system |-> Arr(<<TextBlock(Zh)>>),
     messages |-> messages]

RtBodies ==
    {Envelope(Arr(ms)) : ms \in UNION {[1..n -> RtMessages] : n \in 0..MaxMessages}}
    \cup {Envelope(Null), Envelope(Str(<<"z">>))}

RtAccounts ==
    {Null}
    \cup {[id |-> AccountId, enableTranslation |-> e] :
            e \in {Bool(TRUE), Bool(FALSE), Str(<<"true">>), Str(<<"false">>), Str(<<>>), Null}}

\* The translator's variables while no translateRequest runs
RtIdle ==
    /\ rtAccount = Null
    /\ heap = [in |-> Null, cp |-> Null]
    /\ original = Null
    /\ rtPc = "off"
    /\ rtBody = ""
    /\ rtI = 0
    /\ rtJ = 0
    /\ rtBlocks = <<>>
    /\ rtRet = ""
    /\ rtThrown = FALSE
    /\ rtLog = <<>>
    /\ cache = <<>>

\* config.translation: the global flag set, cleared, or no translation section
Configs ==
    {[translation |-> [enabled |-> Bool(TRUE)]],
     [translation |-> [enabled |-> Bool(FALSE)]],
     [translation |-> Null]}

\* isEnabled, translationService.js lines 351-353
isEnabled == Get(config.translation, "enabled") = Bool(TRUE)

\* ResponseTranslator's constructor, part_001 line 29: this.enabled for an account
ResponseTranslatorEnabled(acct) ==
    Get(acct, "enableTranslation") \in {Bool(TRUE), Str(<<"true">>)}

\* A part of the library that is not driven
Off == [pc |-> "off"]

-----------------------------------------------------------------------------
(* handleRequest and the handlers of _handleStreamResponse *)

Init ==
    /\ account \in Accounts
    /\ req \in Requests
    /\ pc = "start"
    /\ upstreamData = Null
    /\ response = Null
    /\ errorData = Null
    /\ events = <<>>
    /\ aborted = FALSE
    /\ upstream = <<>>
    /\ buffer = <<>>
    /\ scan = ScanInit
    /\ streamEnded = FALSE
    /\ resDestroyed = FALSE
    /\ RtIdle
    /\ config = [translation |-> [enabled |-> Bool(TRUE)]]
    /\ cb = Off
    /\ sb = Off
    /\ resp = Off
    /\ ts = Off
    /\ tc = Off

\* res.headersSent
HeadersSent == \E i \in 1..Len(events) : events[i].op \in {"res.json", "res.write", "res.end"}

IsStreamRequest == Truthy(Get(req.body, "stream"))

\* lines 51-132: the account lookup, then the upstream request is issued with
\* data: req.body
Start ==
    /\ pc = "start"
    /\ \E found \in BOOLEAN :
        IF found
        THEN /\ upstreamData' = req.body
             /\ pc' = "awaitAxios"
             /\ UNCHANGED events
        ELSE /\ events' = events \o CatchBlock(PlainError("Account not found"), HeadersSent,
                                               SessionHash(req), FALSE)
             /\ pc' = "done"
             /\ UNCHANGED upstreamData
    /\ UNCHANGED <<libVars, rtVars, account, req, response, errorData, aborted, upstream, buffer, scan,
                   streamEnded, resDestroyed>>

\* line 132: axios resolves (validateStatus accepts every status)
AxiosResolve ==
    /\ pc = "awaitAxios"
    /\ ~aborted
    /\ \E r \in Responses(IsStreamRequest) : response' = r
    /\ pc' = "response"
    /\ UNCHANGED <<libVars, rtVars, account, req, upstreamData, errorData, events, aborted, upstream, buffer,
                   scan, streamEnded, resDestroyed>>

\* line 132 rejects: the catch block, lines 282-398
AxiosReject ==
    /\ pc = "awaitAxios"
    /\ \E error \in IF aborted THEN {Canceled} ELSE AxiosErrors, markThrows \in BOOLEAN :
        /\ events' = events \o AbortOnce(aborted)
                     \o CatchBlock(error, HeadersSent, SessionHash(req), markThrows)
        /\ errorData' = IF Truthy(error.response) THEN CatchErrorData(error) ELSE errorData
        /\ response' = IF Truthy(error.response)
                       THEN [status |-> error.response.status.num, data |-> error.response.data]
                       ELSE response
    /\ aborted' = TRUE
    /\ pc' = "done"
    /\ UNCHANGED <<libVars, rtVars, account, req, upstreamData, upstream, buffer, scan, streamEnded,
                   resDestroyed>>

\* The 429 branch, lines 135-153 with _handle429Error, lines 712-812: the calls and
\* writes up to the response, or up to the throw of markAccountRateLimited, which
\* _handle429Error does not catch
Branch429(data, isStream, hash, markThrows) ==
    LET p == Parse429(data, isStream)
    IN  <<MarkRateLimited(hash, p.resetsInSeconds, markThrows)>>
        \o (IF markThrows THEN <<>>
            ELSE <<ResJson(429, Or(p.errorData, Synthetic429(p.resetsInSeconds)))>>)

Handle429 ==
    /\ pc = "response"
    /\ response.status = 429
    /\ \E markThrows \in BOOLEAN :
        /\ events' = events
                     \o Branch429(response.data, IsStreamRequest, SessionHash(req), markThrows)
                     \o (IF markThrows
                         THEN AbortOnce(aborted)
                              \o CatchBlock(PlainError("scheduler unavailable"), HeadersSent,
                                            SessionHash(req), FALSE)
                         ELSE <<>>)
        /\ aborted' = (aborted \/ markThrows)
    /\ errorData' = Parse429(response.data, IsStreamRequest).errorData
    /\ pc' = "done"
    /\ UNCHANGED <<libVars, rtVars, account, req, upstreamData, response, upstream, buffer, scan,
                   streamEnded, resDestroyed>>

\* The other statuses >= 400, lines 156-260
HandleErrorStatus ==
    /\ pc = "response"
    /\ response.status >= 400
    /\ response.status # 429
    /\ LET ed == ParseErrorBody(response.data)
       IN  /\ errorData' = ed
           /\ \E markThrows \in BOOLEAN :
                IF response.status = 401
                THEN /\ events' = events \o Handle401(ed, SessionHash(req), markThrows)
                     /\ UNCHANGED aborted
                ELSE IF JsonThrows(ed)
                THEN /\ events' = events \o AbortOnce(aborted)
                                  \o CatchBlock(PlainError("circular structure"), HeadersSent,
                                                SessionHash(req), FALSE)
                     /\ aborted' = TRUE
                ELSE /\ events' = Append(events, ResJson(response.status, ed))
                     /\ UNCHANGED aborted
    /\ pc' = "done"
    /\ UNCHANGED <<libVars, rtVars, account, req, upstreamData, response, upstream, buffer, scan,
                   streamEnded, resDestroyed>>

\* _handleNormalResponse, lines 638-709
NormalResponse(data, requestedModel, acct) ==
    LET usageData == Or(Get(data, "usage"), Get(Get(data, "response"), "usage"))
        actualModel == Or(Get(data, "model"),
                          Or(Get(Get(data, "response"), "model"),
                             Or(requestedModel, Str(<<"gpt-4">>))))
    IN  UsageCalls(usageData, actualModel, acct) \o <<ResJson(200, data)>>

\* A status below 400, lines 262-281
Handle2xx ==
    /\ pc = "response"
    /\ response.status < 400
    /\ IF IsStreamRequest /\ Truthy(response.data) /\ IsStream(response.data)
       THEN /\ events' = Append(events, UpdateAccount([lastUsedAt |-> "now"]))
            /\ upstream' = response.data.toks
            /\ pc' = "streaming"
       ELSE /\ events' = Append(events, UpdateAccount([lastUsedAt |-> "now"]))
                         \o NormalResponse(response.data, Get(req.body, "model"), account)
            /\ pc' = "done"
            /\ UNCHANGED upstream
    /\ UNCHANGED <<libVars, rtVars, account, req, upstreamData, response, errorData, aborted, buffer, scan,
                   streamEnded, resDestroyed>>

\* The data handler keeping the [DONE] marker to itself
OnDataSkipDone(chunk, evs, buf, st, destroyed, ended) ==
    LET f == Feed(buf, chunk, st)
    IN  [events |-> IF ~destroyed /\ ~ended /\ IndexOf(chunk, <<"[DONE]">>, 1) = 0
                    THEN Append(evs, ResWrite(chunk)) ELSE evs,
         buffer |-> f.buffer,
         scan |-> f.st]

\* response.data.on('data'), lines 482-508: the next chunk of the upstream body
OnData(chunk, evs, buf, st, destroyed, ended) ==
    LET f == Feed(buf, chunk, st)
    IN  [events |-> IF ~destroyed /\ ~ended THEN Append(evs, ResWrite(chunk)) ELSE evs,
         buffer |-> f.buffer,
         scan |-> f.st]

\* (axios tears the response stream down when the signal of line 104 is aborted:
\* after abort() the body emits 'error' and no further 'data' or 'end')
StreamData ==
    /\ pc = "streaming"
    /\ ~aborted
    /\ upstream # <<>>
    /\ \E k \in 1..Min(MaxChunk, Len(upstream)) :
        LET r == OnData(SubSeq(upstream, 1, k), events, buffer, scan, resDestroyed, streamEnded)
        IN  /\ events' = r.events
            /\ buffer' = r.buffer
            /\ scan' = r.scan
            /\ upstream' = SubSeq(upstream, k + 1, Len(upstream))
    /\ UNCHANGED <<libVars, rtVars, account, req, pc, upstreamData, response, errorData, aborted, streamEnded,
                   resDestroyed>>

\* response.data.on('end'), lines 510-605: [events, scan]; a throwing
\* markAccountRateLimited rejects the handler, which then never reaches res.end()
OnEnd(evs, buf, st, acct, r, destroyed, markThrows) ==
    LET s1 == IF Trim(buf) # <<>> THEN ParseSSEForUsage(buf, st) ELSE st
        model == Or(s1.actualModel, Or(Get(r.body, "model"), Str(<<"gpt-4">>)))
    IN  [scan |-> s1,
         events |->
            evs \o <<UpstreamEnd>> \o UsageCalls(s1.usageData, model, acct)
            \o (IF s1.rateLimitDetected
                THEN <<MarkRateLimited(SessionHash(r), s1.rateLimitResetsInSeconds, markThrows)>>
                ELSE <<>>)
            \o (IF s1.rateLimitDetected /\ markThrows THEN <<>>
                ELSE IF ~destroyed THEN <<ResEnd>> ELSE <<>>)]

StreamEnd ==
    /\ pc = "streaming"
    /\ ~aborted
    /\ upstream = <<>>
    /\ \E markThrows \in BOOLEAN :
        LET r == OnEnd(events, buffer, scan, account, req, resDestroyed, markThrows)
        IN  /\ events' = r.events
            /\ scan' = r.scan
    /\ streamEnded' = TRUE
    /\ pc' = "done"
    /\ UNCHANGED <<libVars, rtVars, account, req, upstreamData, response, errorData, aborted, upstream, buffer,
                   resDestroyed>>

\* response.data.on('error'), lines 607-620
StreamError ==
    /\ pc = "streaming"
    /\ streamEnded' = TRUE
    /\ events' = IF ~HeadersSent
                 THEN Append(events, ResJson(502, MessageOnly(Str(<<"Upstream stream error">>))))
                 ELSE IF ~resDestroyed THEN Append(events, ResEnd) ELSE events
    /\ pc' = "done"
    /\ UNCHANGED <<libVars, rtVars, account, req, upstreamData, response, errorData, aborted, upstream, buffer,
                   scan, resDestroyed>>

\* The emitter has emitted 'close'
Closed(on) == \E i \in 1..Len(events) : events[i].op = "close" /\ events[i].on = on

\* cleanup, lines 623-634, is registered on the request only, once streaming: it
\* ends the stream for the relay and destroys the upstream body
Cleanup(on) == pc = "streaming" /\ on = "req"

\* 'close' on the client request or on the client response. The listeners of
\* lines 70-71 are attached after the account lookup; handleClientDisconnect,
\* lines 62-67, aborts the upstream request, and an aborted upstream body emits
\* 'error' and delivers nothing more. A closed response is destroyed.
ClientClose ==
    /\ pc \in {"start", "awaitAxios", "response", "streaming", "closed"}
    /\ \E on \in {"req", "res"} :
        /\ ~Closed(on)
        /\ events' = events \o <<CloseEvent(on, pc)>>
                     \o (IF pc # "start" THEN AbortOnce(aborted) ELSE <<>>)
        /\ aborted' = (aborted \/ pc # "start")
        /\ resDestroyed' = (resDestroyed \/ on = "res")
        /\ IF Cleanup(on)
           THEN streamEnded' = TRUE /\ pc' = "closed"
           ELSE UNCHANGED <<streamEnded, pc>>
    /\ UNCHANGED <<libVars, rtVars, account, req, upstreamData, response, errorData, upstream,
                   buffer, scan>>

Next ==
    \/ Start
    \/ AxiosResolve
    \/ AxiosReject
    \/ Handle429
    \/ HandleErrorStatus
    \/ Handle2xx
    \/ StreamData
    \/ StreamEnd
    \/ StreamError
    \/ ClientClose

Spec == Init /\ [][Next]_vars


-----------------------------------------------------------------------------
(* translateRequest, one step per message or content block *)

\* The relay's variables while only the translator runs
RelayIdle ==
    /\ account = CHOOSE a \in Accounts : TRUE
    /\ req = CHOOSE r \in Requests : TRUE
    /\ pc = "off"
    /\ upstreamData = Null
    /\ response = Null
    /\ errorData = Null
    /\ events = <<>>
    /\ aborted = FALSE
    /\ upstream = <<>>
    /\ buffer = <<>>
    /\ scan = ScanInit
    /\ streamEnded = FALSE
    /\ resDestroyed = FALSE

InitRT ==
    /\ RelayIdle
    /\ rtAccount \in RtAccounts
    /\ \E body \in RtBodies :
        /\ heap = [in |-> body, cp |-> Null]
        /\ original = body
    /\ rtPc = "call"
    /\ rtBody = ""
    /\ rtI = 0
    /\ rtJ = 0
    /\ rtBlocks = <<>>
    /\ rtRet = ""
    /\ rtThrown = FALSE
    /\ rtLog = <<>>
    /\ cache = <<>>
    /\ config \in Configs
    /\ cb = Off
    /\ sb = Off
    /\ resp = Off
    /\ ts = Off
    /\ tc = Off

\* translatedBody.messages
RtMsgs == heap[rtBody].messages.arr

\* One call of _translateText as the log keeps it
LogEntry(i, j, text, r) ==
    [i |-> i, j |-> j, text |-> text, failed |-> r.failed, value |-> r.value]

\* lines 22-42: the two early returns, else the deep copy
RtCall ==
    /\ rtPc = "call"
    /\ IF \/ ~IsTranslationEnabled(rtAccount)
          \/ ~Truthy(Get(heap["in"], "messages"))
          \/ ~IsArray(Get(heap["in"], "messages"))
       THEN /\ rtRet' = "in"
            /\ rtPc' = "returned"
            /\ UNCHANGED <<heap, rtBody, rtI>>
       ELSE LET c == DeepCopy(heap)
            IN  /\ heap' = c.heap
                /\ rtBody' = c.ref
                /\ rtI' = 1
                /\ rtPc' = "loop"
                /\ UNCHANGED rtRet
    /\ UNCHANGED <<libVars, relayVars, rtAccount, original, rtJ, rtBlocks, rtThrown, rtLog, cache>>

\* An exception inside the try of translateRequest reaches its catch
RtCatch ==
    /\ rtRet' = CatchReturn.ret
    /\ rtThrown' = CatchReturn.thrown
    /\ rtPc' = "returned"
    /\ UNCHANGED <<heap, rtI, rtJ, rtBlocks, rtLog, cache>>

\* message.content = <content>, then the next message
RtAssign(content, log, c) ==
    /\ heap' = [heap EXCEPT ![rtBody].messages.arr[rtI].content = content]
    /\ rtI' = rtI + 1
    /\ rtJ' = 0
    /\ rtBlocks' = <<>>
    /\ rtLog' = log
    /\ cache' = c
    /\ UNCHANGED <<rtRet, rtThrown, rtPc>>

\* The block at j of an array content, lines 102-117
RtBlock(content, j, blocks, reply) ==
    IF j > Len(content.arr) THEN RtAssign(Arr(blocks), rtLog, cache)
    ELSE LET block == content.arr[j]
         IN  IF block = Null THEN RtCatch
             ELSE IF IsTranslatableBlock(block)
             THEN LET r == TranslateText(block.text, reply, cache)
                      log == IF r.called
                             THEN Append(rtLog, LogEntry(rtI, j, block.text, r))
                             ELSE rtLog
                      out == Append(blocks, [block EXCEPT !.text = r.value])
                  IN  IF r.threw THEN RtCatch
                      ELSE IF j = Len(content.arr) THEN RtAssign(Arr(out), log, r.cache)
                      ELSE /\ rtJ' = j + 1
                           /\ rtBlocks' = out
                           /\ rtLog' = log
                           /\ cache' = r.cache
                           /\ UNCHANGED <<heap, rtI, rtRet, rtThrown, rtPc>>
             ELSE IF j = Len(content.arr) THEN RtAssign(Arr(Append(blocks, block)), rtLog, cache)
             ELSE /\ rtJ' = j + 1
                  /\ rtBlocks' = Append(blocks, block)
                  /\ UNCHANGED <<heap, rtI, rtRet, rtThrown, rtPc, rtLog, cache>>

\* One turn of the loop of lines 44-56 with _translateContent, lines 93-124
RtStep ==
    /\ rtPc = "loop"
    /\ rtI <= Len(RtMsgs)
    /\ \E reply \in Replies :
        LET message == RtMsgs[rtI]
            content == Get(message, "content")
        IN  IF message = Null THEN RtCatch
            ELSE IF ~IsUserMessage(message)
            THEN /\ rtI' = rtI + 1
                 /\ UNCHANGED <<heap, rtJ, rtBlocks, rtRet, rtThrown, rtPc, rtLog, cache>>
            ELSE IF IsString(content)
            THEN LET r == TranslateText(content, reply, cache)
                 IN  IF r.threw THEN RtCatch
                     ELSE RtAssign(r.value,
                                   IF r.called
                                   THEN Append(rtLog, LogEntry(rtI, 0, content, r))
                                   ELSE rtLog,
                                   r.cache)
            ELSE IF IsArray(content)
            THEN IF rtJ = 0 THEN RtBlock(content, 1, <<>>, reply)
                 ELSE RtBlock(content, rtJ, rtBlocks, reply)
            ELSE RtAssign(content, rtLog, cache)
    /\ UNCHANGED <<libVars, relayVars, rtAccount, original, rtBody>>

\* lines 58-70: the loop is over, translatedBody is returned
RtFinish ==
    /\ rtPc = "loop"
    /\ rtI > Len(RtMsgs)
    /\ rtRet' = rtBody
    /\ rtPc' = "returned"
    /\ UNCHANGED <<libVars, relayVars, rtAccount, heap, original, rtBody, rtI, rtJ, rtBlocks,
                   rtThrown, rtLog, cache>>

\* The caller changes the envelope it was returned: body.model = ..., and the
\* content of the first message when there is one
CallerMutates ==
    /\ rtPc = "returned"
    /\ ~rtThrown
    /\ LET b == heap[rtRet]
           b1 == [b EXCEPT !.model = Str(<<"gpt-5">>)]
           b2 == IF IsArray(b.messages) /\ Len(b.messages.arr) > 0
                    /\ b.messages.arr[1] # Null
                 THEN [b1 EXCEPT !.messages.arr[1].content = Str(<<"a">>)]
                 ELSE b1
       IN  heap' = [heap EXCEPT ![rtRet] = b2]
    /\ rtPc' = "mutated"
    /\ UNCHANGED <<libVars, relayVars, rtAccount, original, rtBody, rtI, rtJ, rtBlocks, rtRet,
                   rtThrown, rtLog, cache>>

NextRT ==
    \/ RtCall
    \/ RtStep
    \/ RtFinish
    \/ CallerMutates

SpecRT == InitRT /\ [][NextRT]_vars

-----------------------------------------------------------------------------
(* Properties of handleRequest *)

IsMark(e) == e.op \in {"markAccountRateLimited", "markAccountUnauthorized"}
IsClientWrite(e) == e.op \in {"res.json", "res.write", "res.end"}
Marks(op) == {i \in 1..Len(events) : events[i].op = op}
ClientWrites == {i \in 1..Len(events) : IsClientWrite(events[i])}

\* ResponseTranslator's enabled flag for the serving account
TranslationEnabled ==
    Get(account, "enableTranslation") \in {Bool(TRUE), Str(<<"true">>)}

\* C1: with translation enabled for the serving account no raw upstream chunk is
\* written to the client: every res.write is made by the ResponseTranslator.
C1_NoRawChunkWhenTranslating ==
    TranslationEnabled =>
        \A i \in 1..Len(events) :
            events[i].op = "res.write" => events[i].by = "ResponseTranslator"

\* C2: with translation enabled for the serving account the body handed to the
\* upstream request is what translateRequest returned for the client body.
C2_UpstreamBodyIsTranslated ==
    (upstreamData # Null /\ TranslationEnabled) =>
        (rtPc = "returned" /\ upstreamData = heap[rtRet])

\* error.resets_in_seconds of a parsed 429 body, when it is a number
BodyResets(data) == Get(Get(data, "error"), "resets_in_seconds")

\* C3: after an upstream 429 whose body has error.resets_in_seconds = N,
\* markAccountRateLimited was called exactly once, with (account id,
\* 'openai-responses', session hash, N), and the client was answered 429 with a body
\* carrying resets_in_seconds = N.
C3_RateLimitMarkedAndAnswered ==
    (/\ pc = "done"
     /\ response # Null
     /\ response.status = 429
     /\ IsPlainObject(response.data)
     /\ "num" \in DOMAIN BodyResets(response.data)) =>
        LET n == BodyResets(response.data)
        IN  /\ Cardinality(Marks("markAccountRateLimited")) = 1
            /\ \A i \in Marks("markAccountRateLimited") :
                 events[i].args = <<AccountId, ProviderTag, SessionHash(req), n>>
            /\ \E j \in ClientWrites :
                 /\ events[j].op = "res.json"
                 /\ events[j].status = 429
                 /\ BodyResets(events[j].body) = n

\* C4 as the specification states it: every mark call precedes every write to the
\* client, in-stream rate limits included.
C4_MarkBeforeAnyWrite ==
    \A i \in 1..Len(events) :
        IsMark(events[i]) => \A j \in 1..(i - 1) : ~IsClientWrite(events[j])

\* C4: after an upstream 429 or 401 the mark call precedes everything written to the
\* client; for a rate limit detected inside a 2xx stream markAccountRateLimited is
\* called by the end handler, after every chunk was written and before res.end().
C4_MarkBeforeResponse ==
    \A i \in 1..Len(events) :
        IsMark(events[i]) =>
            IF response.status \in {401, 429}
            THEN \A j \in 1..(i - 1) : ~IsClientWrite(events[j])
            ELSE /\ response.status < 400
                 /\ events[i].op = "markAccountRateLimited"
                 /\ \A j \in ClientWrites :
                      /\ events[j].op # "res.json"
                      /\ events[j].op = "res.write" => j < i
                      /\ events[j].op = "res.end" => j > i

\* Chunks of a 2xx stream were written, the end handler then marked the account
\* rate limited, and the stream was ended after that
C4_Witness ==
    /\ response # Null
    /\ response.status = 200
    /\ \E i \in Marks("markAccountRateLimited"), j \in ClientWrites, k \in ClientWrites :
        /\ j < i
        /\ i < k
        /\ events[j].op = "res.write"
        /\ events[k].op = "res.end"

\* C5: when a mark call throws, the client is still answered with the upstream's
\* status (429 or 401).
C5_MarkFailureNotPropagated ==
    (/\ pc = "done"
     /\ response # Null
     /\ response.status \in {401, 429}
     /\ \E i \in 1..Len(events) : IsMark(events[i]) /\ events[i].threw) =>
        \E j \in ClientWrites :
            /\ events[j].op = "res.json"
            /\ events[j].status = response.status

NonEmptyString(v) == IsString(v) /\ Trim(v.str) # <<>>

\* The first of the candidates that is a non-empty string, trimmed; Null when none is
FirstNonEmpty(cands) ==
    IF \E i \in 1..Len(cands) : NonEmptyString(cands[i])
    THEN LET i == CHOOSE k \in 1..Len(cands) :
                    /\ NonEmptyString(cands[k])
                    /\ \A l \in 1..(k - 1) : ~NonEmptyString(cands[l])
         IN  Str(Trim(cands[i].str))
    ELSE Null

\* C6: after an upstream 401, markAccountUnauthorized was called exactly once, with
\* (account id, 'openai-responses', session hash, reason), reason embedding the first
\* non-empty of the error body as a string, errorData.error.message and
\* errorData.message; the client was then answered once, with status 401 and the
\* parsed body, or the synthetic unauthorized error when that is no plain object.
C6_UnauthorizedMarkedAndAnswered ==
    (pc = "done" /\ response # Null /\ response.status = 401) =>
        /\ Cardinality(Marks("markAccountUnauthorized")) = 1
        /\ Cardinality(ClientWrites) = 1
        /\ \A i \in Marks("markAccountUnauthorized"), j \in ClientWrites :
            /\ i < j
            /\ events[i].args =
                <<AccountId, ProviderTag, SessionHash(req),
                  [base |-> "401",
                   detail |-> FirstNonEmpty(<<errorData,
                                              Get(Get(errorData, "error"), "message"),
                                              Get(errorData, "message")>>)]>>
            /\ events[j].op = "res.json"
            /\ events[j].status = 401
            /\ IF IsPlainObject(errorData) THEN events[j].body = errorData
               ELSE /\ events[j].body.error.type = Str(<<"unauthorized">>)
                    /\ events[j].body.error.code = Str(<<"unauthorized">>)

\* A 401 whose body has both error.message and message non-empty was marked with
\* error.message and answered with the parsed body
C6_Witness ==
    /\ pc = "done"
    /\ response # Null
    /\ response.status = 401
    /\ NonEmptyString(Get(Get(errorData, "error"), "message"))
    /\ NonEmptyString(Get(errorData, "message"))
    /\ \E i \in Marks("markAccountUnauthorized") :
        events[i].args[4].detail = Str(<<"bad key">>)
    /\ \E j \in ClientWrites : events[j].body = errorData

-----------------------------------------------------------------------------
(* Properties of translateRequest *)

RtEnabled == Truthy(Get(rtAccount, "enableTranslation"))
RtReturned == rtPc = "returned"

\* The body has a messages array, so that the loop of translateRequest is entered
HasMessages(body) == Truthy(Get(body, "messages")) /\ IsArray(body.messages)

\* A text _translateText hands to the translation service
NeedsService(text) ==
    /\ IsString(text)
    /\ Trim(text.str) # <<>>
    /\ containsChinese(text)

\* A message or block on which a step other than the translation service fails
MalformedBlock(block) ==
    \/ block = Null
    \/ /\ Get(block, "type") = Str(<<"text">>)
       /\ Truthy(Get(block, "text"))
       /\ ~IsString(block.text)
MalformedMessage(message) ==
    \/ message = Null
    \/ /\ Get(message, "role") = Str(<<"user">>)
       /\ IsArray(Get(message, "content"))
       /\ \E j \in 1..Len(message.content.arr) : MalformedBlock(message.content.arr[j])
Malformed(body) ==
    \E i \in 1..Len(body.messages.arr) : MalformedMessage(body.messages.arr[i])

\* The user texts of a well-formed body: <<i, j, text>>, j = 0 for a string content
UserTexts(body) ==
    {<<i, 0, body.messages.arr[i].content>> :
        i \in {k \in 1..Len(body.messages.arr) :
                /\ Get(body.messages.arr[k], "role") = Str(<<"user">>)
                /\ IsString(Get(body.messages.arr[k], "content"))}}
    \cup UNION {
        {<<i, j, body.messages.arr[i].content.arr[j].text>> :
            j \in {l \in 1..Len(body.messages.arr[i].content.arr) :
                    /\ Get(body.messages.arr[i].content.arr[l], "type") = Str(<<"text">>)
                    /\ Truthy(Get(body.messages.arr[i].content.arr[l], "text"))}} :
        i \in {k \in 1..Len(body.messages.arr) :
                /\ Get(body.messages.arr[k], "role") = Str(<<"user">>)
                /\ IsArray(Get(body.messages.arr[k], "content"))}}

\* The text at <<i, j>> of a body
TextAt(body, i, j) ==
    IF j = 0 THEN body.messages.arr[i].content
    ELSE body.messages.arr[i].content.arr[j].text

\* C7: translateRequest never throws or rejects. With translation enabled and a
\* messages array: when no step other than the translation service can fail, the copy
\* is returned, every user text that needs the service was handed to it (whether or
\* not an earlier call failed), and a text whose call failed is the original text in
\* the result; when another step fails (a null message or block, a text that is no
\* string), the original request body is what is returned.
C7_NeverThrows ==
    /\ ~rtThrown
    /\ (RtReturned /\ RtEnabled /\ HasMessages(original)) =>
        IF Malformed(original)
        THEN rtRet = "in" /\ heap["in"] = original
        ELSE /\ rtRet = "cp"
             /\ \A u \in UserTexts(original) :
                  NeedsService(u[3]) =>
                    \E k \in 1..Len(rtLog) :
                        /\ rtLog[k].i = u[1]
                        /\ rtLog[k].j = u[2]
                        /\ rtLog[k].text = u[3]
                        /\ TextAt(heap["cp"], u[1], u[2]) = rtLog[k].value
                        /\ rtLog[k].failed => rtLog[k].value = u[3]

\* The service failed for one text, a later text was still translated, and a null
\* block then made translateRequest return the original body
C7_Witness ==
    /\ RtReturned
    /\ RtEnabled
    /\ rtRet = "in"
    /\ rtBody = "cp"
    /\ \E k \in 1..Len(rtLog), l \in 1..Len(rtLog) :
        /\ k < l
        /\ rtLog[k].failed
        /\ ~rtLog[l].failed
        /\ rtLog[l].value # rtLog[l].text

\* C8: from the call to the return the input envelope is deep-equal to its value
\* before the call, on every path (translated, skipped, fallen back on error).
C8_InputUnmodified ==
    rtPc \in {"call", "loop", "returned"} => heap["in"] = original

\* A translation was written into the returned envelope and the input is as it was
C8_Witness ==
    /\ RtReturned
    /\ rtRet = "cp"
    /\ heap["cp"] # original
    /\ heap["in"] = original

SansContent(message) == [message EXCEPT !.content = Null]
SansText(block) == [block EXCEPT !.text = Null]

\* C10: in the returned envelope the model and system fields, every message whose
\* role is not user, and every block of a user message that is not a text block
\* (image, tool_use, tool_result, also with Chinese text in it) equal those of the
\* input; of a user message and of a text block only content and text may differ.
C10_OnlyUserTextChanges ==
    (RtReturned /\ HasMessages(original)) =>
        LET out == heap[rtRet]
        IN  /\ out.model = original.model
            /\ out.system = original.system
            /\ Len(out.messages.arr) = Len(original.messages.arr)
            /\ \A i \in 1..Len(original.messages.arr) :
                LET m == original.messages.arr[i]
                    o == out.messages.arr[i]
                IN  IF Get(m, "role") # Str(<<"user">>) THEN o = m
                    ELSE /\ SansContent(o) = SansContent(m)
                         /\ IF ~IsArray(m.content) THEN IsString(m.content) \/ o = m
                            ELSE /\ IsArray(o.content)
                                 /\ Len(o.content.arr) = Len(m.content.arr)
                                 /\ \A j \in 1..Len(m.content.arr) :
                                      LET b == m.content.arr[j]
                                          c == o.content.arr[j]
                                      IN  IF Get(b, "type") = Str(<<"text">>) /\ b # Null
                                             /\ "text" \in DOMAIN b
                                          THEN SansText(c) = SansText(b)
                                          ELSE c = b

\* A user text was translated next to a Chinese tool_result block and a Chinese
\* assistant message, both returned as they came
C10_Witness ==
    /\ RtReturned
    /\ rtRet = "cp"
    /\ \E i \in 1..Len(original.messages.arr), k \in 1..Len(original.messages.arr) :
        /\ original.messages.arr[i] = Message("user", Arr(<<TextBlock(Zh), ToolResult(Zh)>>))
        /\ heap["cp"].messages.arr[i].content.arr[1].text # Zh
        /\ heap["cp"].messages.arr[i].content.arr[2] = ToolResult(Zh)
        /\ original.messages.arr[k] = Message("assistant", Zh)

\* C11: when the account is absent or its enableTranslation is false, null, undefined
\* or the empty string, translateRequest returns the body object it was given, makes
\* no copy and never calls the translation service.
C11_DisabledIsIdentity ==
    (/\ rtPc \in {"loop", "returned"}
     /\ \/ rtAccount = Null
        \/ Get(rtAccount, "enableTranslation") \in {Bool(FALSE), Null, Str(<<>>)}) =>
        /\ rtPc = "returned"
        /\ rtRet = "in"
        /\ heap["in"] = original
        /\ heap["cp"] = Null
        /\ rtLog = <<>>
        /\ cache = <<>>

\* A body with a Chinese user message came back as the same object for an account
\* whose enableTranslation is false
C11_Witness ==
    /\ RtReturned
    /\ Get(rtAccount, "enableTranslation") = Bool(FALSE)
    /\ HasMessages(original)
    /\ \E i \in 1..Len(original.messages.arr) : original.messages.arr[i] = Message("user", Zh)
    /\ rtRet = "in"

\* A string without a character in U+4E00..U+9FA5
NoChinese(text) == IsString(text) /\ \A k \in 1..Len(text.str) : text.str[k] # "z"

\* C12: with translation enabled, a user text without a Chinese character is in the
\* returned body exactly as it was given, and no call of the translation service (so
\* no cache access) was made for it; when no user text has a Chinese character the
\* service and the cache are never touched.
C12_EnglishSkipped ==
    (RtReturned /\ RtEnabled /\ HasMessages(original)) =>
        /\ \A u \in UserTexts(original) :
             NoChinese(u[3]) =>
                /\ TextAt(heap[rtRet], u[1], u[2]) = u[3]
                /\ \A k \in 1..Len(rtLog) : ~(rtLog[k].i = u[1] /\ rtLog[k].j = u[2])
        /\ (\A u \in UserTexts(original) : NoChinese(u[3])) =>
             (rtLog = <<>> /\ cache = <<>>)

\* An English user text came back unchanged, without a call, from a request whose
\* Chinese user text was translated
C12_Witness ==
    /\ RtReturned
    /\ RtEnabled
    /\ rtRet = "cp"
    /\ Len(rtLog) = 1
    /\ rtLog[1].value # rtLog[1].text
    /\ \E u \in UserTexts(original) :
        /\ u[3] = En
        /\ TextAt(heap["cp"], u[1], u[2]) = En

\* C13: the request translator goes on to translate a body with messages exactly for
\* the accounts for which the ResponseTranslator is enabled: true and "true" enable
\* both, false and "false" disable both.
C13_SameEnableDecision ==
    (rtPc \in {"loop", "returned"} /\ HasMessages(original)) =>
        /\ (rtBody = "cp") <=> ResponseTranslatorEnabled(rtAccount)
        /\ Get(rtAccount, "enableTranslation") \in {Bool(FALSE), Str(<<"false">>)} =>
             (rtRet = "in" /\ rtLog = <<>>)

\* C14: while config.translation.enabled is not true, translateRequest calls the
\* translation service for no text and returns every user text untranslated.
C14_GlobalFlagOff ==
    ~isEnabled =>
        /\ rtLog = <<>>
        /\ cache = <<>>
        /\ RtReturned => heap[rtRet] = original

-----------------------------------------------------------------------------
(* codeBlockProtector: one extract, then restore over the unchanged clean text *)

MaxParts == 7      \* the most pieces a text of the protector is made of

\* The pieces of the texts: a letter, a back-tick, a fence, placeholder-shaped text
CbPieces == {<<"a">>, <<"BT">>, Fence, <<CodeBlockKey(0)>>}

RECURSIVE Concat(_)
Concat(seqs) == IF seqs = <<>> THEN <<>> ELSE Head(seqs) \o Concat(Tail(seqs))

CbTexts == {Str(Concat(ps)) : ps \in UNION {[1..n -> CbPieces] : n \in 0..MaxParts}}

\* The parts of the library that are not driven, and the relay and request translator
ConfigDefault == [translation |-> [enabled |-> Bool(TRUE)]]

InitCB ==
    /\ RelayIdle
    /\ RtIdle
    /\ config = ConfigDefault
    /\ cb \in {[pc |-> "text", text |-> t] : t \in CbTexts}
    /\ sb = Off
    /\ resp = Off
    /\ ts = Off
    /\ tc = Off

\* const { cleanText, placeholders } = codeBlockProtector.extract(text)
CbExtract ==
    /\ cb.pc = "text"
    /\ LET x == extract(cb.text)
       IN  cb' = [pc |-> "extracted", text |-> cb.text, cleanText |-> x.cleanText,
                  placeholders |-> x.placeholders]
    /\ UNCHANGED <<relayVars, rtVars, config, sb, resp, ts, tc>>

\* codeBlockProtector.restore(cleanText, placeholders)
CbRestore ==
    /\ cb.pc = "extracted"
    /\ cb' = [pc |-> "restored", text |-> cb.text, cleanText |-> cb.cleanText,
              placeholders |-> cb.placeholders,
              restored |-> restore(cb.cleanText, cb.placeholders)]
    /\ UNCHANGED <<relayVars, rtVars, config, sb, resp, ts, tc>>

NextCB ==
    \/ CbExtract
    \/ CbRestore

SpecCB == InitCB /\ [][NextCB]_vars

\* C15: restore(extract(t).cleanText, extract(t).placeholders) = t for every text t,
\* also when t holds placeholder-shaped text or fences next to back-ticks.
C15_RestoreExtractRoundTrip ==
    cb.pc = "restored" => cb.restored = cb.text

-----------------------------------------------------------------------------
(* SentenceBuffer: texts are sequences of the tokens "a" (a character that ends  *)
(* no sentence), ".", "?", "!", "n" (newline) and "ZS", "ZQ", "ZE" (the Chinese  *)
(* full stop, question mark and exclamation mark).                               *)

MaxOps == 4        \* the most operations made on one SentenceBuffer

\* sentenceEnders, part_000 line 15
SentenceEnders == {".", "?", "!", "n", "ZS", "ZQ", "ZE"}

\* The index of the first sentence ender of s, 0 when there is none
RECURSIVE FirstEnder(_, _)
FirstEnder(s, i) ==
    IF i > Len(s) THEN 0
    ELSE IF s[i] \in SentenceEnders THEN i
    ELSE FirstEnder(s, i + 1)

\* The loop of add cutting each sentence before its ender
RECURSIVE SentenceSplitDropEnder(_)
SentenceSplitDropEnder(s) ==
    LET e == FirstEnder(s, 1)
    IN  IF e = 0 THEN [sentences |-> <<>>, rest |-> s]
        ELSE LET r == SentenceSplitDropEnder(SubSeq(s, e + 1, Len(s)))
             IN  [sentences |-> <<SubSeq(s, 1, e - 1)>> \o r.sentences, rest |-> r.rest]

\* The loop of add, part_000 lines 31-43: the sentences, each up to and with its
\* ender, and the incomplete rest
RECURSIVE SentenceSplit(_)
SentenceSplit(s) ==
    LET e == FirstEnder(s, 1)
    IN  IF e = 0 THEN [sentences |-> <<>>, rest |-> s]
        ELSE LET r == SentenceSplit(SubSeq(s, e + 1, Len(s)))
             IN  [sentences |-> <<SubSeq(s, 1, e)>> \o r.sentences, rest |-> r.rest]

\* add, part_000 lines 23-46: [buffer, sentences]
SentenceBufferAdd(buf, text) ==
    IF ~Truthy(text) \/ ~IsString(text) THEN [buffer |-> buf, sentences |-> <<>>]
    ELSE LET r == SentenceSplit(buf \o text.str)
         IN  [buffer |-> r.rest, sentences |-> r.sentences]

\* What add is called with
AddInputs ==
    {Null, Num(5), Str(<<>>), Str(<<"a">>), Str(<<".">>), Str(<<"a", ".", "a">>),
     Str(<<"n", "a">>), Str(<<"ZS", "?">>), Str(<<"a", "!", "ZQ", "a">>), Str(<<"ZE">>)}

\* new SentenceBuffer(), with the record of what was added and emitted since the
\* last reset or flush
SbNew == [pc |-> "on", buffer |-> <<>>, emitted |-> <<>>, added |-> <<>>, adds |-> 0,
          ret |-> Null, ops |-> 0]

InitSB ==
    /\ RelayIdle
    /\ RtIdle
    /\ config = ConfigDefault
    /\ cb = Off
    /\ sb = SbNew
    /\ resp = Off
    /\ ts = Off
    /\ tc = Off

SbAdd ==
    /\ sb.pc = "on"
    /\ sb.ops < MaxOps
    /\ \E text \in AddInputs :
        LET r == SentenceBufferAdd(sb.buffer, text)
        IN  sb' = [sb EXCEPT !.buffer = r.buffer,
                             !.emitted = @ \o r.sentences,
                             !.added = IF IsString(text) THEN @ \o text.str ELSE @,
                             !.adds = @ + 1,
                             !.ret = Arr([i \in 1..Len(r.sentences) |-> Str(r.sentences[i])]),
                             !.ops = @ + 1]
    /\ UNCHANGED <<relayVars, rtVars, config, cb, resp, ts, tc>>

\* flush, part_000 lines 52-56
SbFlush ==
    /\ sb.pc = "on"
    /\ sb.ops < MaxOps
    /\ sb' = [SbNew EXCEPT !.ret = Str(sb.buffer), !.ops = sb.ops + 1]
    /\ UNCHANGED <<relayVars, rtVars, config, cb, resp, ts, tc>>

\* reset, part_000 lines 61-63
SbReset ==
    /\ sb.pc = "on"
    /\ sb.ops < MaxOps
    /\ sb' = [SbNew EXCEPT !.ops = sb.ops + 1]
    /\ UNCHANGED <<relayVars, rtVars, config, cb, resp, ts, tc>>

\* peek, part_000 lines 69-71
SbPeek ==
    /\ sb.pc = "on"
    /\ sb.ops < MaxOps
    /\ sb' = [sb EXCEPT !.ret = Str(sb.buffer), !.ops = @ + 1]
    /\ UNCHANGED <<relayVars, rtVars, config, cb, resp, ts, tc>>

NextSB ==
    \/ SbAdd
    \/ SbFlush
    \/ SbReset
    \/ SbPeek

SpecSB == InitSB /\ [][NextSB]_vars

\* C16: after any add, flush and peek operations since the last reset or flush, the
\* sentences add emitted, concatenated in order, followed by the buffer are the
\* strings passed to add, concatenated in order.
C16_NothingLost ==
    sb.pc = "on" => Concat(sb.emitted) \o sb.buffer = sb.added

\* Several adds emitted several sentences and left an incomplete rest, which a peek
\* then returned
C16_Witness ==
    /\ sb.pc = "on"
    /\ sb.adds >= 2
    /\ Len(sb.emitted) >= 3
    /\ sb.buffer # <<>>
    /\ sb.ret = Str(sb.buffer)

-----------------------------------------------------------------------------
(* ResponseTranslator: one instance fed the events of one response, one         *)
(* processEvent at a time. Event and block types are strings of one token.      *)

MaxEvents == 4     \* the most events one response has

Word(w) == Str(<<w>>)

BlockStart(i, contentBlock) ==
    [obj |-> TRUE, type |-> Word("content_block_start"), index |-> Num(i),
     content_block |-> contentBlock]

BlockDelta(i, delta) ==
    [obj |-> TRUE, type |-> Word("content_block_delta"), index |-> Num(i), delta |-> delta]

TextDelta(text) == [obj |-> TRUE, type |-> Word("text_delta"), text |-> Str(text)]

BlockStop(i) == [obj |-> TRUE, type |-> Word("content_block_stop"), index |-> Num(i)]

\* The events the upstream sends
RespEvents ==
    {[obj |-> TRUE, type |-> Word("message_start")],
     [obj |-> TRUE, type |-> Word("ping")],
     BlockStart(0, [obj |-> TRUE, type |-> Word("text")]),
     BlockStart(1, [obj |-> TRUE, type |-> Word("tool_use")]),
     BlockStart(2, Null),
     BlockDelta(0, TextDelta(<<"a">>)),
     BlockDelta(0, TextDelta(<<".", "a", "!">>)),
     BlockDelta(0, TextDelta(<<" ">>)),
     BlockDelta(0, TextDelta(<<>>)),
     BlockDelta(1, [obj |-> TRUE, type |-> Word("input_json_delta"),
                    partial_json |-> Str(<<"a", ".">>)]),
     BlockStop(0)}

\* What the translation account answers to the sentences of one event, in order
RespReplies == {"faithful", "blank", "fail"}
ReplySeqs == {<<r1, r2>> : r1 \in RespReplies, r2 \in RespReplies}
ReplyAt(replies, k) == replies[IF k > Len(replies) THEN Len(replies) ELSE k]

\* new ResponseTranslator(outputStream, account), part_001 lines 26-54, with the
\* record of the events it received, of the writes made on outputStream, each
\* with the event it was made for (from), whether it is a passed or a synthetic
\* event and the number of its sentence among those of that event, and of the
\* texts that were added to the sentence buffer
RespNew(acct, writable) ==
    [pc |-> "on", enabled |-> ResponseTranslatorEnabled(acct), writable |-> writable,
     currentBlockType |-> Null, currentBlockIndex |-> Null, buffer |-> <<>>,
     received |-> <<>>, written |-> <<>>, entered |-> <<>>]

\* _writeSSE, part_001 lines 259-270
WriteSSE(st, w) == IF st.writable THEN [st EXCEPT !.written = Append(@, w)] ELSE st

\* _passthrough, part_001 lines 249-252
Passthrough(st, event) ==
    WriteSSE(st, [event |-> event, from |-> Len(st.received), kind |-> "pass",
                  sentence |-> 0, source |-> <<>>])

\* _emitTextDelta, part_001 lines 227-242
EmitTextDelta(st, text, k, source) ==
    IF ~Truthy(text) THEN st
    ELSE WriteSSE(st, [event |-> [obj |-> TRUE, type |-> Word("content_block_delta"),
                                  index |-> st.currentBlockIndex,
                                  delta |-> [obj |-> TRUE, type |-> Word("text_delta"),
                                             text |-> text]],
                       from |-> Len(st.received), kind |-> "synthetic",
                       sentence |-> k, source |-> source])

\* _translateSentence, part_001 lines 186-220: [value, cache]
TranslateSentence(sentence, reply, c) ==
    IF ~Truthy(sentence) THEN [value |-> sentence, cache |-> c]
    ELSE LET x == extract(sentence)
         IN  IF Trim(x.cleanText.str) = <<>> THEN [value |-> sentence, cache |-> c]
             ELSE LET t == translate(x.cleanText, "en", "zh", reply, c)
                  IN  [value |-> IF t.threw THEN sentence
                                 ELSE restore(t.value, x.placeholders),
                       cache |-> t.cache]

\* The loop of _handleDelta, part_001 lines 131-137: [st, cache]
RECURSIVE EmitSentences(_, _, _, _, _)
EmitSentences(st, c, sentences, k, replies) ==
    IF sentences = <<>> THEN [st |-> st, cache |-> c]
    ELSE LET t == TranslateSentence(Str(Head(sentences)), ReplyAt(replies, k), c)
         IN  EmitSentences(EmitTextDelta(st, t.value, k, Head(sentences)), t.cache,
                           Tail(sentences), k + 1, replies)

\* _handleBlockStart, part_001 lines 96-111
HandleBlockStart(st, c, event) ==
    [st |-> Passthrough([st EXCEPT
                !.currentBlockType = Or(Get(Get(event, "content_block"), "type"), Null),
                !.currentBlockIndex = Get(event, "index"),
                !.buffer = <<>>], event),
     cache |-> c]

\* _handleDelta that buffers every delta with a text, whatever the block is
HandleDeltaAnyBlock(st, c, event, replies) ==
    IF Truthy(Get(Get(event, "delta"), "text"))
    THEN LET text == Get(Get(event, "delta"), "text")
             r == SentenceBufferAdd(st.buffer, text)
         IN  EmitSentences([st EXCEPT !.buffer = r.buffer,
                                      !.entered = Append(@, Len(st.received))],
                           c, r.sentences, 1, replies)
    ELSE [st |-> Passthrough(st, event), cache |-> c]

\* _handleDelta, part_001 lines 120-144
HandleDelta(st, c, event, replies) ==
    IF st.currentBlockType = Word("tool_use")
    THEN [st |-> Passthrough(st, event), cache |-> c]
    ELSE IF st.currentBlockType = Word("text") /\ Truthy(Get(Get(event, "delta"), "text"))
    THEN LET text == Get(Get(event, "delta"), "text")
             r == SentenceBufferAdd(st.buffer, text)
         IN  EmitSentences([st EXCEPT !.buffer = r.buffer,
                                      !.entered = Append(@, Len(st.received))],
                           c, r.sentences, 1, replies)
    ELSE [st |-> Passthrough(st, event), cache |-> c]

\* _handleBlockStop that passes the stop event before it flushes the buffer
HandleBlockStopPassFirst(st, c, event, replies) ==
    LET passed == Passthrough(st, event)
        flushed == IF st.currentBlockType = Word("text")
                   THEN [passed EXCEPT !.buffer = <<>>] ELSE passed
        e == IF st.currentBlockType = Word("text") /\ Trim(st.buffer) # <<>>
             THEN EmitSentences(flushed, c, <<st.buffer>>, 1, replies)
             ELSE [st |-> flushed, cache |-> c]
    IN  [st |-> [e.st EXCEPT !.currentBlockType = Null, !.currentBlockIndex = Null],
         cache |-> e.cache]

\* _handleBlockStop that forgets the block before it flushes the buffer
HandleBlockStopResetFirst(st, c, event, replies) ==
    LET flushed == IF st.currentBlockType = Word("text")
                   THEN [st EXCEPT !.buffer = <<>>, !.currentBlockType = Null,
                                   !.currentBlockIndex = Null]
                   ELSE [st EXCEPT !.currentBlockType = Null, !.currentBlockIndex = Null]
        e == IF st.currentBlockType = Word("text") /\ Trim(st.buffer) # <<>>
             THEN EmitSentences(flushed, c, <<st.buffer>>, 1, replies)
             ELSE [st |-> flushed, cache |-> c]
    IN  [st |-> Passthrough(e.st, event), cache |-> e.cache]

\* _handleBlockStop, part_001 lines 152-177
HandleBlockStop(st, c, event, replies) ==
    LET flushed == IF st.currentBlockType = Word("text")
                   THEN [st EXCEPT !.buffer = <<>>] ELSE st
        e == IF st.currentBlockType = Word("text") /\ Trim(st.buffer) # <<>>
             THEN EmitSentences(flushed, c, <<st.buffer>>, 1, replies)
             ELSE [st |-> flushed, cache |-> c]
    IN  [st |-> Passthrough([e.st EXCEPT !.currentBlockType = Null,
                                         !.currentBlockIndex = Null], event),
         cache |-> e.cache]

\* processEvent, part_001 lines 61-88
processEvent(st0, c, event, replies) ==
    LET st == [st0 EXCEPT !.received = Append(@, event)]
    IN  IF ~st.enabled THEN [st |-> Passthrough(st, event), cache |-> c]
        ELSE CASE Get(event, "type") = Word("content_block_start") ->
                    HandleBlockStart(st, c, event)
               [] Get(event, "type") = Word("content_block_delta") ->
                    HandleDelta(st, c, event, replies)
               [] Get(event, "type") = Word("content_block_stop") ->
                    HandleBlockStop(st, c, event, replies)
               [] OTHER -> [st |-> Passthrough(st, event), cache |-> c]

rtCallVars == <<rtAccount, heap, original, rtPc, rtBody, rtI, rtJ, rtBlocks, rtRet,
                rtThrown, rtLog>>

InitResp ==
    /\ RelayIdle
    /\ RtIdle
    /\ config = ConfigDefault
    /\ cb = Off
    /\ sb = Off
    /\ resp \in {RespNew(acct, writable) : acct \in RtAccounts, writable \in BOOLEAN}
    /\ ts = Off
    /\ tc = Off

\* await rt.processEvent(event)
RespProcessEvent ==
    /\ resp.pc = "on"
    /\ Len(resp.received) < MaxEvents
    /\ \E event \in RespEvents, replies \in ReplySeqs :
        LET r == processEvent(resp, cache, event, replies)
        IN  /\ resp' = r.st
            /\ cache' = r.cache
    /\ UNCHANGED <<relayVars, rtCallVars, config, cb, sb, ts, tc>>

\* finalize, part_001 lines 296-316
RespFinalize ==
    /\ resp.pc = "on"
    /\ resp' = [resp EXCEPT !.pc = "final", !.buffer = <<>>]
    /\ UNCHANGED <<relayVars, rtVars, config, cb, sb, ts, tc>>

NextResp ==
    \/ RespProcessEvent
    \/ RespFinalize

SpecResp == InitResp /\ [][NextResp]_vars

-----------------------------------------------------------------------------
(* Properties of the ResponseTranslator *)

IsType(event, w) == Get(event, "type") = Word(w)

\* The type of the block that is open before the i-th received event: that of the
\* last content_block_start not followed by a content_block_stop
RECURSIVE BlockTypeBefore(_, _)
BlockTypeBefore(received, i) ==
    IF i <= 1 THEN Null
    ELSE IF IsType(received[i - 1], "content_block_start")
    THEN Or(Get(Get(received[i - 1], "content_block"), "type"), Null)
    ELSE IF IsType(received[i - 1], "content_block_stop") THEN Null
    ELSE BlockTypeBefore(received, i - 1)

IsDelta(received, i) == IsType(received[i], "content_block_delta")

\* The i-th received event is a text delta of a text block
TextDeltaOfTextBlock(received, i) ==
    /\ IsDelta(received, i)
    /\ Get(Get(received[i], "delta"), "type") = Word("text_delta")
    /\ BlockTypeBefore(received, i) = Word("text")

\* The i-th received event is a delta of a text block that carries a non-empty text
TextOfTextBlock(received, i) ==
    /\ IsDelta(received, i)
    /\ Truthy(Get(Get(received[i], "delta"), "text"))
    /\ BlockTypeBefore(received, i) = Word("text")

\* The received events whose index is not in drop, in order
RECURSIVE EventsBut(_, _, _)
EventsBut(received, drop, i) ==
    IF i > Len(received) THEN <<>>
    ELSE (IF i \in drop THEN <<>> ELSE <<received[i]>>) \o EventsBut(received, drop, i + 1)

\* The events written that are not synthetic text deltas, in order
PassedEvents ==
    LET passed == SelectSeq(resp.written, LAMBDA w : w.kind = "pass")
    IN  [i \in 1..Len(passed) |-> passed[i].event]

RespTranslating == resp.pc \in {"on", "final"} /\ resp.enabled /\ resp.writable

WriteStage(w) ==
    IF w.kind = "synthetic" THEN 1
    ELSE IF IsType(w.event, "content_block_stop") THEN 2 ELSE 0

WrittenBefore(v, w) ==
    \/ v.from < w.from
    \/ /\ v.from = w.from
       /\ \/ WriteStage(v) < WriteStage(w)
          \/ WriteStage(v) = 1 /\ WriteStage(w) = 1 /\ v.sentence < w.sentence

\* C18: the writes of one response are in source order: a synthetic delta comes
\* after the deltas of the sentences completed earlier and after the events
\* received earlier, and before the events received later.
C18_WritesInSourceOrder ==
    resp.pc \in {"on", "final"} =>
        \A j, k \in 1..Len(resp.written) :
            j < k => WrittenBefore(resp.written[j], resp.written[k])

\* One delta completed two sentences, written in that order, and the block's stop
\* flushed a third, translated and written before the stop event
C18_Witness ==
    /\ RespTranslating
    /\ \E j \in 1..Len(resp.written) :
        /\ j + 1 <= Len(resp.written)
        /\ resp.written[j].kind = "synthetic" /\ resp.written[j].sentence = 1
        /\ resp.written[j + 1].kind = "synthetic" /\ resp.written[j + 1].sentence = 2
        /\ resp.written[j + 1].from = resp.written[j].from
    /\ \E k \in 1..Len(resp.written) :
        /\ k + 1 <= Len(resp.written)
        /\ resp.written[k].kind = "synthetic"
        /\ Get(resp.written[k].event, "delta").text # Str(resp.written[k].source)
        /\ resp.written[k + 1].kind = "pass"
        /\ IsType(resp.written[k + 1].event, "content_block_stop")
        /\ resp.written[k + 1].from = resp.written[k].from

IsPassOf(w, type) == w.kind = "pass" /\ IsType(w.event, type)

\* The write of the content_block_start of the block that is open at the k-th
\* write: the last one before k with no content_block_stop written since; 0 when
\* no block is open
OpenStart(written, k) ==
    LET starts == {j \in 1..(k - 1) :
                     /\ IsPassOf(written[j], "content_block_start")
                     /\ \A m \in (j + 1)..(k - 1) :
                          /\ ~IsPassOf(written[m], "content_block_start")
                          /\ ~IsPassOf(written[m], "content_block_stop")}
    IN  IF starts = {} THEN 0 ELSE CHOOSE j \in starts : TRUE

\* The k-th write is the remainder flushed by a content_block_stop
IsFlushed(k) == IsType(resp.received[resp.written[k].from], "content_block_stop")

\* C30: every synthetic text delta is written inside a text block, after the
\* block's content_block_start and before its content_block_stop, and carries
\* the index of that content_block_start; the remainder flushed at the end of
\* the block is written immediately before the stop event.
C30_SyntheticDeltaInsideItsBlock ==
    resp.pc \in {"on", "final"} =>
        \A k \in 1..Len(resp.written) :
            resp.written[k].kind = "synthetic" =>
                LET s == OpenStart(resp.written, k)
                IN  /\ s # 0
                    /\ Get(Get(resp.written[s].event, "content_block"), "type")
                          = Word("text")
                    /\ Get(resp.written[k].event, "index")
                          = Get(resp.written[s].event, "index")
                    /\ IsFlushed(k) =>
                          /\ k < Len(resp.written)
                          /\ IsPassOf(resp.written[k + 1], "content_block_stop")
                          /\ resp.written[k + 1].from = resp.written[k].from

\* A text block with a sentence written while it was open and a remainder
\* flushed by its stop event
C30_Witness ==
    /\ RespTranslating
    /\ \E j, k \in 1..Len(resp.written) :
        /\ j < k
        /\ resp.written[j].kind = "synthetic" /\ ~IsFlushed(j)
        /\ resp.written[k].kind = "synthetic" /\ IsFlushed(k)
        /\ OpenStart(resp.written, j) = OpenStart(resp.written, k)
        /\ Get(resp.written[k].event, "index") = Num(0)
        /\ IsPassOf(resp.written[Len(resp.written)], "content_block_stop")

-----------------------------------------------------------------------------
(* translationService.translate called again and again on one service; the last *)
(* two calls are kept with what they were given and what they did.              *)

MaxCalls == 3      \* the most translate calls made on the service

TsTexts == {Null, Str(<<>>), Str(<<" ">>), Str(<<"z">>), Str(<<"a">>)}
TsLangs == {"zh", "en", "fr"}

InitTS ==
    /\ RelayIdle
    /\ RtIdle
    /\ config = ConfigDefault
    /\ cb = Off
    /\ sb = Off
    /\ resp = Off
    /\ ts = [pc |-> "on", calls |-> <<>>, n |-> 0]
    /\ tc = Off

\* The entries of a cache, whatever their order of use
Entries(c) == {c[i] : i \in 1..Len(c)}

LastTwo(calls) == IF Len(calls) > 2 THEN Tail(calls) ELSE calls

\* await translationService.translate(text, sourceLang, targetLang)
TsTranslate ==
    /\ ts.pc = "on"
    /\ ts.n < MaxCalls
    /\ \E text \in TsTexts, sourceLang \in TsLangs, targetLang \in TsLangs, reply \in Replies :
        LET r == translate(text, sourceLang, targetLang, reply, cache)
            key == CacheKey(text, sourceLang, targetLang)
        IN  /\ cache' = r.cache
            /\ ts' = [ts EXCEPT !.n = @ + 1, !.calls = LastTwo(Append(@,
                        [text |-> text, sourceLang |-> sourceLang, targetLang |-> targetLang,
                         threw |-> r.threw, value |-> r.value, api |-> r.api,
                         read |-> r.read,
                         present |-> \E i \in 1..Len(cache) : cache[i].key = key,
                         held |-> cache # <<>>, wrote |-> r.cache # cache,
                         kept |-> Entries(r.cache) = Entries(cache)]))]
    /\ UNCHANGED <<relayVars, rtCallVars, config, cb, sb, resp, tc>>

\* The time to live of an entry runs out: cache.get no longer finds it
TsExpire ==
    /\ ts.pc = "on"
    /\ \E i \in 1..Len(cache) :
        cache' = SelectSeq(cache, LAMBDA e : e.key # cache[i].key)
    /\ UNCHANGED <<relayVars, rtCallVars, libVars>>

NextTS ==
    \/ TsTranslate
    \/ TsExpire

SpecTS == InitTS /\ [][NextTS]_vars

SameCall(a, b) ==
    a.text = b.text /\ a.sourceLang = b.sourceLang /\ a.targetLang = b.targetLang

\* C19: of two successive translate calls with the same text and languages, the
\* first having returned and its entry being in the cache when the second is
\* made, the second returns the first one's result and asks no upstream.
C19_SecondCallIsCacheHit ==
    (ts.pc = "on" /\ Len(ts.calls) = 2) =>
        LET first == ts.calls[1]
            second == ts.calls[2]
        IN  (SameCall(first, second) /\ ~first.threw /\ second.present)
            => ~second.threw /\ second.value = first.value /\ ~second.api

IsBlank(text) == ~Truthy(text) \/ Trim(text.str) = <<>>

Unsupported(call) ==
    call.sourceLang \notin LanguageNames \/ call.targetLang \notin LanguageNames

-----------------------------------------------------------------------------
(* Properties of the relay: usage, streaming, disconnects and errors *)

\* The usage payload the upstream answered with: that of the last
\* response.completed event of a stream, or that of the JSON body
UsagePayload ==
    IF IsStreamRequest /\ Truthy(response.data) /\ IsStream(response.data)
    THEN scan.usageData
    ELSE Or(Get(response.data, "usage"), Get(Get(response.data, "response"), "usage"))

\* x else y: y when x is absent or zero
Else(x, y) == IF x # Null /\ x # Num(0) THEN x ELSE y

TotalInput(u) == Else(Get(u, "input_tokens"), Else(Get(u, "prompt_tokens"), Num(0))).num
CachedRead(u) == Else(Get(Get(u, "input_tokens_details"), "cached_tokens"), Num(0)).num

UsageRecorded == {i \in 1..Len(events) : events[i].op = "recordUsage"}

\* C22: the input-token count given to recordUsage is max(0, totalInput -
\* cachedRead), never negative and the difference itself when cachedRead is at
\* most totalInput; streamed or not, the same payload gives the same five numbers
\* (input, output, cache creation, cache read and the total given to
\* updateAccountUsage).
C22_InputTokensRecorded ==
    \A i \in UsageRecorded :
        LET u == UsagePayload
            in == events[i].args[2]
            diff == TotalInput(u) - CachedRead(u)
            output == Else(Get(u, "output_tokens"),
                           Else(Get(u, "completion_tokens"), Num(0))).num
            create == extractCacheCreationTokens(u).num
        IN  /\ in >= 0
            /\ in = IF diff > 0 THEN diff ELSE 0
            /\ CachedRead(u) <= TotalInput(u) => in = diff
            /\ events[i].args[3] = output
            /\ events[i].args[4] = create
            /\ events[i].args[5] = CachedRead(u)
            /\ events[i + 1] =
                 UpdateAccountUsage(Else(Get(u, "total_tokens"),
                                         Num(TotalInput(u) + output + create)).num)

\* A stream whose last usage reports more cached tokens than input tokens ended and
\* its usage was recorded with no input tokens
C22_Witness ==
    /\ pc = "done"
    /\ IsStreamRequest
    /\ Truthy(scan.usageData)
    /\ CachedRead(scan.usageData) > TotalInput(scan.usageData)
    /\ \E i \in UsageRecorded : events[i].args[2] = 0 /\ events[i].args[5] > 0

\* _handleStreamResponse was entered for a 2xx streamed answer
StreamingPath ==
    /\ pc \in {"streaming", "closed", "done"}
    /\ response # Null
    /\ response.status < 400
    /\ IsStreamRequest
    /\ IsStream(response.data)

\* The bytes of the upstream body the data handler received so far
Received == SubSeq(response.data.toks, 1, Len(response.data.toks) - Len(upstream))

\* The bytes written to the client with res.write, in order
RECURSIVE WrittenBytes(_)
WrittenBytes(evs) ==
    IF evs = <<>> THEN <<>>
    ELSE (IF Head(evs).op = "res.write" THEN Head(evs).chunk ELSE <<>>)
         \o WrittenBytes(Tail(evs))

IsPrefix(a, b) == Len(a) <= Len(b) /\ a = SubSeq(b, 1, Len(a))

\* C23: without translation, what the relay wrote to the client of a stream is, byte
\* for byte and in order, what it received from the upstream while the client
\* response was not destroyed: all of it while the response is open, a prefix of it
\* afterwards; nothing else is written as a chunk.
C23_ChunksForwardedAsReceived ==
    (StreamingPath /\ ~TranslationEnabled) =>
        /\ IsPrefix(WrittenBytes(events), Received)
        /\ ~resDestroyed => WrittenBytes(events) = Received

\* A stream ending with the [DONE] marker was received in several chunks and
\* written whole to the client, then ended
C23_Witness ==
    /\ StreamingPath
    /\ ~TranslationEnabled
    /\ pc = "done"
    /\ Cardinality({i \in 1..Len(events) : events[i].op = "res.write"}) >= 3
    /\ IndexOf(response.data.toks, <<"[DONE]">>, 1) # 0
    /\ WrittenBytes(events) = response.data.toks
    /\ events[Len(events)] = ResEnd

\* C24: once the client response is destroyed no upstream chunk is written to the
\* client any more, and the upstream request is aborted, so that no further chunk
\* of the upstream body is received.
C24_DestroyedStopsUpstream ==
    (StreamingPath /\ resDestroyed) =>
        /\ \A i, j \in 1..Len(events) :
            (events[i].op = "close" /\ events[i].on = "res" /\ i < j)
            => events[j].op # "res.write"
        /\ aborted

\* The 'close' events that fired while the upstream request or stream was in progress
ClosesInProgress ==
    {i \in 1..Len(events) :
        events[i].op = "close" /\ events[i].at \in {"awaitAxios", "response", "streaming"}}

RateLimitEvents ==
    LET toks == SelectSeq(response.data.toks,
                          LAMBDA tok : /\ tok \in DOMAIN EventData
                                       /\ EventData[tok].error # Null
                                       /\ EventData[tok].error.type \in
                                            {"rate_limit_error", "usage_limit_reached",
                                             "rate_limit_exceeded"})
    IN  [i \in 1..Len(toks) |-> EventData[toks[i]].error]

\* The resets_in_seconds the last of them that has one gives, Null when none does
RECURSIVE GivenResets(_)
GivenResets(errs) ==
    IF errs = <<>> THEN Null
    ELSE IF errs[Len(errs)].resets_in_seconds # Null THEN errs[Len(errs)].resets_in_seconds
    ELSE GivenResets(SubSeq(errs, 1, Len(errs) - 1))

\* C26: when the upstream body of a 2xx stream has ended, markAccountRateLimited
\* was called exactly once, with the resets_in_seconds the stream gave (null if it
\* gave none), if the stream carried a rate-limit event, and not at all otherwise.
C26_StreamRateLimitMarked ==
    (StreamingPath /\ \E i \in 1..Len(events) : events[i] = UpstreamEnd) =>
        IF RateLimitEvents # <<>>
        THEN /\ Cardinality(Marks("markAccountRateLimited")) = 1
             /\ \A i \in Marks("markAccountRateLimited") :
                    events[i].args = <<AccountId, ProviderTag, SessionHash(req),
                                       GivenResets(RateLimitEvents)>>
        ELSE Marks("markAccountRateLimited") = {}

\* handleRequest returned without having issued the upstream request: the account
\* lookup of line 52 found nothing
AccountNotFound == pc = "done" /\ upstreamData = Null

\* C27: when the account lookup finds nothing no upstream request is issued, no
\* scheduler or usage call is made and the client is answered a 4xx JSON error.
C27_AccountNotFoundIs4xx ==
    AccountNotFound =>
        /\ response = Null
        /\ \A i \in 1..Len(events) :
            events[i].op \notin {"markAccountRateLimited", "markAccountUnauthorized",
                                 "recordUsage", "updateAccountUsage", "updateUsageQuota",
                                 "updateAccount"}
        /\ \E i \in 1..Len(events) :
            /\ events[i].op = "res.json"
            /\ events[i].status >= 400
            /\ events[i].status < 500

\* The upstream request failed before any response: axios rejected with an error
\* that has no response, the request not having been aborted by a client close
RequestFailed ==
    pc = "done" /\ upstreamData # Null /\ response = Null /\ ClosesInProgress = {}

\* The upstream body of a 2xx stream emitted 'error' instead of 'end', the request
\* not having been aborted by a client close
StreamFailed ==
    /\ StreamingPath
    /\ pc = "done"
    /\ ClosesInProgress = {}
    /\ \A i \in 1..Len(events) : events[i] # UpstreamEnd

AccountSetToError ==
    \E i \in 1..Len(events) :
        /\ events[i].op = "updateAccount"
        /\ "status" \in DOMAIN events[i].fields
        /\ events[i].fields.status = "error"

\* C28: after a transport failure of the upstream request or stream the account's
\* status was set to 'error' and the client was answered 502 or 500.
C28_TransportFailureSetsError ==
    (RequestFailed \/ StreamFailed) =>
        /\ AccountSetToError
        /\ \E i \in 1..Len(events) :
            events[i].op = "res.json" /\ events[i].status \in {500, 502}

-----------------------------------------------------------------------------
(* testAccountConnection(accountId, responseStream), lines 846-1003 *)

MaxTcChunks == 3

\* What getAccount gives: no account, an account, an account without baseApi
\* (baseApi.replace throws a TypeError), or a rejection
TcAccounts == {"none", "ok", "noBaseApi", "reject"}

TcStatuses == {200, 401, 500}

\* Chunks of the upstream body. In a 200 body "d" is "data:", "n" a line feed,
\* "C" a JSON object with choices[0].delta.content, "F" one with
\* choices[0].finish_reason, "CF" one with both, "E" one whose content is the
\* empty string, "X" text that is not JSON. In another body "ERR" is a JSON
\* object with error.message and "X" text that is not JSON.
TcChunks == {<<"d", "C", "n">>, <<"d", "C">>, <<"n">>, <<"d", " ", "F", "n">>,
             <<"d", "CF", "n", "d", "[DONE]", "n">>, <<"d", "E", "n">>, <<"X", "n">>,
             <<"ERR">>}

TcNew == [pc |-> "start", headersSent |-> FALSE, destroyed |-> FALSE,
          writableEnded |-> FALSE, written |-> <<>>, status |-> 0, buffer |-> <<>>,
          n |-> 0, failure |-> "", finished |-> Null]

TcWritable(st) == ~st.destroyed /\ ~st.writableEnded

\* sendSSE, lines 847-853
sendSSE(st, type) ==
    IF TcWritable(st)
    THEN [st EXCEPT !.written = Append(@, [type |-> type])]
    ELSE st

\* endTest reporting success whatever it is given
endTestSucceeds(st, success, error) ==
    LET done == [st EXCEPT !.pc = "done",
                           !.finished = [success |-> success, writable |-> TcWritable(st)]]
    IN  IF TcWritable(st)
        THEN [done EXCEPT !.written = Append(@, [type |-> "test_complete",
                                                 success |-> TRUE, error |-> error]),
                          !.writableEnded = TRUE]
        ELSE done

\* endTest, lines 855-862; finished keeps the argument and whether the stream
\* could still be written to
endTest(st, success, error) ==
    LET done == [st EXCEPT !.pc = "done",
                           !.finished = [success |-> success, writable |-> TcWritable(st)]]
    IN  IF TcWritable(st)
        THEN [done EXCEPT !.written = Append(@, [type |-> "test_complete",
                                                 success |-> success, error |-> error]),
                          !.writableEnded = TRUE]
        ELSE done

\* writeHead unless the headers were sent, lines 873-880 and 995-1000
TcWriteHead(st) == [st EXCEPT !.headersSent = TRUE]

\* The catch of lines 993-1002
TcCatch(st, failure, message) ==
    endTest([TcWriteHead(st) EXCEPT !.failure = failure], FALSE, message)

\* The position of the first line feed of toks, 0 when there is none
TcLineEnd(toks) ==
    IF \E i \in 1..Len(toks) : toks[i] = "n"
    THEN CHOOSE i \in 1..Len(toks) : toks[i] = "n" /\ \A j \in 1..(i - 1) : toks[j] # "n"
    ELSE 0

\* One line of a 200 body, lines 964-979
TcLine(st, line) ==
    IF line = <<>> \/ Head(line) # "d" THEN st
    ELSE LET jsonStr == SelectSeq(Tail(line), LAMBDA t : t # " ")
         IN  IF jsonStr = <<>> \/ jsonStr = <<"[DONE]">> THEN st
             ELSE IF jsonStr = <<"C">> THEN sendSSE(st, "content")
             ELSE IF jsonStr = <<"F">> THEN sendSSE(st, "message_stop")
             ELSE IF jsonStr = <<"CF">> THEN sendSSE(sendSSE(st, "content"), "message_stop")
             ELSE st

\* The loop over the complete lines of the buffer, lines 960-980
RECURSIVE TcLines(_)
TcLines(st) ==
    LET i == TcLineEnd(st.buffer)
    IN  IF i = 0 THEN st
        ELSE TcLines(TcLine([st EXCEPT !.buffer = SubSeq(@, i + 1, Len(@))],
                            SubSeq(st.buffer, 1, i - 1)))

\* errorMsg of lines 936-943
TcErrorMsg(body) ==
    IF body = <<"ERR">> THEN "error.message"
    ELSE IF body = <<>> THEN "API Error"
    ELSE "body"

InitTC ==
    /\ RelayIdle
    /\ RtIdle
    /\ config = ConfigDefault
    /\ cb = Off
    /\ sb = Off
    /\ resp = Off
    /\ ts = Off
    /\ tc = TcNew

\* lines 865-882: getAccount, then the headers and test_start; an account
\* without baseApi throws at line 896
TcGetAccount ==
    /\ tc.pc = "start"
    /\ \E a \in TcAccounts :
        tc' = IF a \in {"none", "reject"} THEN TcCatch(tc, "account", "Account not found")
              ELSE LET started == sendSSE(TcWriteHead(tc), "test_start")
                   IN  IF a = "noBaseApi" THEN TcCatch(started, "request", "TypeError")
                       ELSE [started EXCEPT !.pc = "awaitAxios"]
    /\ UNCHANGED <<relayVars, rtVars, config, cb, sb, resp, ts>>

\* line 928 resolves (validateStatus accepts every status)
TcAxiosResolve ==
    /\ tc.pc = "awaitAxios"
    /\ \E status \in TcStatuses : tc' = [tc EXCEPT !.pc = "streaming", !.status = status]
    /\ UNCHANGED <<relayVars, rtVars, config, cb, sb, resp, ts>>

\* line 928 rejects: time-out or network error
TcAxiosReject ==
    /\ tc.pc = "awaitAxios"
    /\ tc' = TcCatch(tc, "request", "timeout")
    /\ UNCHANGED <<relayVars, rtVars, config, cb, sb, resp, ts>>

\* response.data 'data', line 934 (another status) and lines 958-981 (200)
TcData ==
    /\ tc.pc = "streaming"
    /\ tc.n < MaxTcChunks
    /\ \E chunk \in TcChunks :
        LET got == [tc EXCEPT !.buffer = @ \o chunk, !.n = @ + 1]
        IN  tc' = IF tc.status = 200 THEN TcLines(got) ELSE got
    /\ UNCHANGED <<relayVars, rtVars, config, cb, sb, resp, ts>>

\* response.data 'end', lines 935-946 and 983-986
TcEnd ==
    /\ tc.pc = "streaming"
    /\ tc' = IF tc.status = 200 THEN endTest(tc, TRUE, "")
             ELSE endTest(tc, FALSE, TcErrorMsg(tc.buffer))
    /\ UNCHANGED <<relayVars, rtVars, config, cb, sb, resp, ts>>

\* response.data 'error', lines 947-950 and 988-991
TcError ==
    /\ tc.pc = "streaming"
    /\ tc' = endTest([tc EXCEPT !.failure = "stream"], FALSE, "aborted")
    /\ UNCHANGED <<relayVars, rtVars, config, cb, sb, resp, ts>>

\* The client of the test goes away: responseStream.destroyed
TcClientClose ==
    /\ tc.pc \in {"start", "awaitAxios", "streaming", "done"}
    /\ ~tc.destroyed
    /\ tc' = [tc EXCEPT !.destroyed = TRUE]
    /\ UNCHANGED <<relayVars, rtVars, config, cb, sb, resp, ts>>

NextTC ==
    \/ TcGetAccount
    \/ TcAxiosResolve
    \/ TcAxiosReject
    \/ TcData
    \/ TcEnd
    \/ TcError
    \/ TcClientClose

SpecTC == InitTC /\ [][NextTC]_vars

-----------------------------------------------------------------------------
(* Properties of testAccountConnection *)

TcTypes(type) == {i \in 1..Len(tc.written) : tc.written[i].type = type}

TcStartFirst ==
    \A i \in TcTypes("content") \cup TcTypes("message_stop") :
        \E j \in TcTypes("test_start") : j < i

TcCompleteLast ==
    \A i \in TcTypes("test_complete") : i = Len(tc.written) /\ tc.writableEnded

TcFailed == tc.status # 200 \/ tc.failure # ""

TcSuccessRight ==
    \A i \in TcTypes("test_complete") : tc.written[i].success = ~TcFailed

\* C29 as stated: test_start comes before any content or message_stop; a
\* finished test has written exactly one test_complete, as the last thing
\* before the stream was ended; its success is false when the upstream status
\* is not 200 or the request or the stream failed, and true only after a 200
\* body that ended without error
C29_OneTestCompleteAlways ==
    tc.pc # "off" =>
        /\ TcStartFirst
        /\ TcCompleteLast
        /\ TcSuccessRight
        /\ Cardinality(TcTypes("test_complete")) <= 1
        /\ tc.pc = "done" => Cardinality(TcTypes("test_complete")) = 1

\* C29 amended: the same, except that a test finishing on a responseStream
\* that is already destroyed writes no test_complete (and nothing else)
C29_OneTestCompleteIfWritable ==
    tc.pc # "off" =>
        /\ TcStartFirst
        /\ TcCompleteLast
        /\ TcSuccessRight
        /\ Cardinality(TcTypes("test_complete")) <= 1
        /\ tc.pc = "done" =>
            Cardinality(TcTypes("test_complete")) = (IF tc.finished.writable THEN 1 ELSE 0)

C29_Witness ==
    /\ tc.pc = "done"
    /\ tc.status = 200
    /\ tc.failure = ""
    /\ TcTypes("content") # {}
    /\ TcTypes("message_stop") # {}
    /\ \E i \in TcTypes("test_complete") : tc.written[i].success

-----------------------------------------------------------------------------
(* ResponseTranslator with processEvent invocations that are not awaited: an
   invocation runs up to its first await when it is called and goes on when the
   translation it awaits settles. The translation is computed when it settles. *)

MaxRcEvents == 3

\* A suspended invocation: the received event it is for, the sentences not yet
\* emitted (the first is the one being translated) and the number of the first
RcPending(from, kind, sentences, k) ==
    [from |-> from, kind |-> kind, sentences |-> sentences, k |-> k]

\* The translator as the invocation for the from-th event sees it
RcAt(st, from) == [st EXCEPT !.received = SubSeq(@, 1, from)]

\* The end of _handleBlockStop, part_001 lines 164-176
RcBlockStopEnd(st, from) ==
    [Passthrough(RcAt([st EXCEPT !.currentBlockType = Null,
                                 !.currentBlockIndex = Null], from),
                 st.received[from])
     EXCEPT !.received = st.received]

\* _handleDelta up to its first await, part_001 lines 120-134
RcDeltaCall(st, event) ==
    IF st.currentBlockType = Word("tool_use") THEN Passthrough(st, event)
    ELSE IF st.currentBlockType = Word("text") /\ Truthy(Get(Get(event, "delta"), "text"))
    THEN LET r == SentenceBufferAdd(st.buffer, Get(Get(event, "delta"), "text"))
             added == [st EXCEPT !.buffer = r.buffer,
                                 !.entered = Append(@, Len(st.received))]
         IN  IF r.sentences = <<>> THEN added
             ELSE [added EXCEPT !.calls = Append(@,
                        RcPending(Len(st.received), "delta", r.sentences, 1))]
    ELSE Passthrough(st, event)

\* _handleBlockStop up to its first await, part_001 lines 152-158
RcStopCall(st, event) ==
    IF st.currentBlockType = Word("text") /\ Trim(st.buffer) # <<>>
    THEN [st EXCEPT !.buffer = <<>>,
                    !.calls = Append(@, RcPending(Len(st.received), "stop", <<st.buffer>>, 1))]
    ELSE RcBlockStopEnd(IF st.currentBlockType = Word("text")
                        THEN [st EXCEPT !.buffer = <<>>] ELSE st, Len(st.received))

\* processEvent up to its first await, part_001 lines 61-88
RcProcessEvent(st0, event) ==
    LET st == [st0 EXCEPT !.received = Append(@, event)]
    IN  IF ~st.enabled THEN Passthrough(st, event)
        ELSE CASE Get(event, "type") = Word("content_block_start") ->
                    HandleBlockStart(st, <<>>, event).st
               [] Get(event, "type") = Word("content_block_delta") -> RcDeltaCall(st, event)
               [] Get(event, "type") = Word("content_block_stop") -> RcStopCall(st, event)
               [] OTHER -> Passthrough(st, event)

RcRemove(calls, i) == SubSeq(calls, 1, i - 1) \o SubSeq(calls, i + 1, Len(calls))

\* The awaited _translateSentence of the i-th suspended invocation settles with
\* value: lines 133-134 and the next turn of the loop, or lines 158-176
RcContinue(st, i, value) ==
    LET c == st.calls[i]
        emitted == [EmitTextDelta(RcAt(st, c.from), value, c.k, Head(c.sentences))
                    EXCEPT !.received = st.received]
    IN  IF Tail(c.sentences) # <<>>
        THEN [emitted EXCEPT !.calls[i] = RcPending(c.from, c.kind, Tail(c.sentences), c.k + 1)]
        ELSE LET left == [emitted EXCEPT !.calls = RcRemove(@, i)]
             IN  IF c.kind = "stop" THEN RcBlockStopEnd(left, c.from) ELSE left

InitRC ==
    /\ RelayIdle
    /\ RtIdle
    /\ config = ConfigDefault
    /\ cb = Off
    /\ sb = Off
    /\ resp \in {RespNew(acct, TRUE) @@ [calls |-> <<>>] : acct \in RtAccounts}
    /\ ts = Off
    /\ tc = Off

\* rt.processEvent(event), not awaited by its caller
RcCall ==
    /\ resp.pc = "on"
    /\ Len(resp.received) < MaxRcEvents
    /\ \E event \in RespEvents : resp' = RcProcessEvent(resp, event)
    /\ UNCHANGED <<relayVars, rtVars, config, cb, sb, ts, tc>>

\* The translation a suspended invocation awaits settles
RcSettle ==
    /\ resp.pc = "on"
    /\ \E i \in 1..Len(resp.calls), reply \in RespReplies :
        LET t == TranslateSentence(Str(Head(resp.calls[i].sentences)), reply, cache)
        IN  /\ resp' = RcContinue(resp, i, t.value)
            /\ cache' = t.cache
    /\ UNCHANGED <<relayVars, rtCallVars, config, cb, sb, ts, tc>>

NextRC ==
    \/ RcCall
    \/ RcSettle

SpecRC == InitRC /\ [][NextRC]_vars

\* The received content_block_start of the block the from-th received event
\* belongs to, 0 when there is none
RcBlockOf(received, from) ==
    LET starts == {j \in 1..(from - 1) :
                     /\ IsType(received[j], "content_block_start")
                     /\ \A m \in (j + 1)..(from - 1) :
                          /\ ~IsType(received[m], "content_block_start")
                          /\ ~IsType(received[m], "content_block_stop")}
    IN  IF starts = {} THEN 0 ELSE CHOOSE j \in starts : TRUE

\* C31: under any interleaving of processEvent invocations, every synthetic text
\* delta is written between the content_block_start and the content_block_stop
\* of the block whose text it carries, carries that block's index (never null),
\* and the sentences are written in the order of the source.
C31_ConcurrentDeltasInsideTheirBlock ==
    resp.pc = "on" =>
        /\ \A k \in 1..Len(resp.written) :
            resp.written[k].kind = "synthetic" =>
                LET s == OpenStart(resp.written, k)
                IN  /\ s # 0
                    /\ resp.written[s].from = RcBlockOf(resp.received, resp.written[k].from)
                    /\ Get(resp.written[k].event, "index") # Null
                    /\ Get(resp.written[k].event, "index")
                          = Get(resp.written[s].event, "index")
        /\ \A j, k \in 1..Len(resp.written) :
            /\ j < k
            /\ resp.written[j].kind = "synthetic"
            /\ resp.written[k].kind = "synthetic"
            => \/ resp.written[j].from < resp.written[k].from
               \/ /\ resp.written[j].from = resp.written[k].from
                  /\ resp.written[j].sentence < resp.written[k].sentence

-----------------------------------------------------------------------------
(* ResponseTranslator with a translation service whose every call fails *)

\* await rt.processEvent(event) while translationService.translate rejects
RespProcessEventFailing ==
    /\ resp.pc = "on"
    /\ Len(resp.received) < MaxEvents
    /\ \E event \in RespEvents :
        LET r == processEvent(resp, cache, event, <<"fail", "fail">>)
        IN  /\ resp' = r.st
            /\ cache' = r.cache
    /\ UNCHANGED <<relayVars, rtCallVars, config, cb, sb, ts, tc>>

NextRF ==
    \/ RespProcessEventFailing
    \/ RespFinalize

SpecRF == InitResp /\ [][NextRF]_vars

\* content_block_start of a text block, deltas of type text_delta, content_block_stop
WellFormedTextBlock(received) ==
    /\ Len(received) >= 2
    /\ IsType(received[1], "content_block_start")
    /\ Get(Get(received[1], "content_block"), "type") = Word("text")
    /\ IsType(received[Len(received)], "content_block_stop")
    /\ \A i \in 2..(Len(received) - 1) :
        /\ IsType(received[i], "content_block_delta")
        /\ Get(Get(received[i], "delta"), "type") = Word("text_delta")

\* The texts of the text deltas among events, concatenated
RECURSIVE DeltaText(_)
DeltaText(events_) ==
    IF events_ = <<>> THEN <<>>
    ELSE (IF IsType(Head(events_), "content_block_delta")
             /\ Get(Get(Head(events_), "delta"), "type") = Word("text_delta")
          THEN Get(Get(Head(events_), "delta"), "text").str ELSE <<>>)
         \o DeltaText(Tail(events_))

WrittenEvents == [i \in 1..Len(resp.written) |-> resp.written[i].event]

\* C32: with translation enabled and every translation failing, the text written
\* for a well-formed text block is the text received for it, character for
\* character, the whitespace left in the buffer at the block's stop included.
C32_FailingTranslationKeepsText ==
    RespTranslating /\ WellFormedTextBlock(resp.received)
        => DeltaText(WrittenEvents) = DeltaText(resp.received)

-----------------------------------------------------------------------------
(* Properties of the relay: usage recording and the end of the response *)

\* The request went down the non-streaming 2xx path, lines 279-280
NormalPath ==
    /\ pc = "done"
    /\ response # Null
    /\ response.status < 400
    /\ ~(IsStreamRequest /\ Truthy(response.data) /\ IsStream(response.data))

UsageOps == {"recordUsage", "updateAccountUsage", "updateUsageQuota"}

\* C33: in a 2xx non-streaming response the upstream JSON is sent to the client
\* before usage is recorded, so that recording, the account-usage update and the
\* quota update can neither delay nor change the client response.
C33_JsonForwardedBeforeUsage ==
    NormalPath =>
        /\ \E j \in 1..Len(events) :
            events[j].op = "res.json" /\ events[j].body = response.data
        /\ \A i, j \in 1..Len(events) :
            events[i].op \in UsageOps /\ events[j].op = "res.json" => j < i

\* The usage objects of the response.completed events of an SSE body, in order:
\* an event is a data line whose payload is one JSON object
RECURSIVE CompletedUsages(_)
CompletedUsages(lines) ==
    IF lines = <<>> THEN <<>>
    ELSE LET payload == IF Head(lines) # <<>> /\ Head(Head(lines)) = "d"
                        THEN SelectSeq(Tail(Head(lines)), LAMBDA t : t # " ") ELSE <<>>
         IN  (IF Len(payload) = 1 /\ payload[1] \in {"U1", "U2", "U3"}
              THEN <<EventData[payload[1]].response.usage>> ELSE <<>>)
             \o CompletedUsages(Tail(lines))

StreamedUsages == CompletedUsages(Split(response.data.toks, <<"n">>))

\* C34: recordUsage is called at most once for a request, and only for an upstream
\* status below 400 with a usage payload; for a streamed response it is called
\* after the upstream stream has ended, with the numbers of the last
\* response.completed event of the stream.
C34_UsageRecordedOnce ==
    /\ Cardinality(UsageRecorded) <= 1
    /\ \A i \in UsageRecorded :
        /\ response # Null
        /\ response.status < 400
        /\ Truthy(UsagePayload)
        /\ StreamingPath =>
            /\ \E j \in 1..(i - 1) : events[j] = UpstreamEnd
            /\ StreamedUsages # <<>>
            /\ LET n == UsageNumbers(StreamedUsages[Len(StreamedUsages)])
               IN  /\ events[i].args[2] = n.actualInputTokens
                   /\ events[i].args[3] = n.outputTokens
                   /\ events[i].args[5] = n.cacheReadTokens

\* A stream with two response.completed events, recorded once, and a
\* non-streamed body recorded once
C34_Witness ==
    /\ StreamingPath
    /\ pc = "done"
    /\ Len(StreamedUsages) = 2
    /\ StreamedUsages[1] # StreamedUsages[2]
    /\ Cardinality(UsageRecorded) = 1

\* The stream has terminated: by 'end' or 'error' of the upstream body, or by
\* the cleanup of a client disconnect
StreamTerminated == StreamingPath /\ pc \in {"done", "closed"}

\* C35: a 2xx streamed response whose response.completed usage was parsed has
\* its usage recorded once the stream has terminated, whether by the upstream's
\* end, by an upstream error or by a client disconnect.
C35_ParsedUsageRecorded ==
    StreamTerminated /\ Truthy(scan.usageData) => UsageRecorded # {}

ClientConnected == ~resDestroyed /\ ~Closed("req") /\ ~Closed("res")

UpstreamEnded == \E i \in 1..Len(events) : events[i] = UpstreamEnd

\* C36: when the upstream stream of a 2xx streamed response ends and the client
\* is still connected, the client response is ended with res.end, whether or not
\* usage recording or markAccountRateLimited fails.
C36_EndedStreamEndsResponse ==
    StreamingPath /\ pc = "done" /\ UpstreamEnded /\ ClientConnected
        => \E i \in 1..Len(events) : events[i] = ResEnd

\* The scanner after the whole body arrived as one chunk and the stream ended
OneChunkScan(toks) ==
    LET f == Feed(<<>>, toks, ScanInit)
    IN  IF Trim(f.buffer) # <<>> THEN ParseSSEForUsage(f.buffer, f.st) ELSE f.st

\* The scanner after the terminated events of the bytes received so far were
\* each handed to it once, in order
ScanOfReceived ==
    LET evs == Split(Received, <<"n", "n">>)
    IN  ScanEvents(SubSeq(evs, 1, Len(evs) - 1), ScanInit)

TailOfReceived ==
    LET evs == Split(Received, <<"n", "n">>)
    IN  evs[Len(evs)]

\* C37: however the upstream body is split into chunks, the scanner has seen the
\* terminated events of the bytes received so far once each and in order, the
\* buffer holds the unterminated tail, and at the end of the stream the usage,
\* the model and the rate-limit flag are those of the body arriving as one chunk.
C37_ChunkingDoesNotMatter ==
    StreamingPath =>
        IF UpstreamEnded
        THEN scan = OneChunkScan(response.data.toks)
        ELSE /\ scan = ScanOfReceived
             /\ buffer = TailOfReceived

\* A body ended after chunks that cut its events: a chunk without a terminator
\* was written, and the usage of the body was found
C37_Witness ==
    /\ StreamingPath
    /\ UpstreamEnded
    /\ Truthy(scan.usageData)
    /\ Len(StreamedUsages) = 2
    /\ \E i \in 1..Len(events) :
        /\ events[i].op = "res.write"
        /\ IndexOf(events[i].chunk, <<"n", "n">>, 1) = 0
        /\ \E k \in 1..Len(events[i].chunk) : events[i].chunk[k] = "U2"

-----------------------------------------------------------------------------
(* Properties of translationService.translate: failures and the cache *)

-----------------------------------------------------------------------------
(* translationService.translate called concurrently: a call runs up to the await
   of line 96 when it is made and goes on when the upstream answers *)

MaxTxCalls == 3

TxTexts == {Str(<<" ">>), Str(<<"z">>), Str(<<"a">>)}
TxReplies == {"faithful", "lossy", "fail"}

TxReturn(st, key, threw, value) ==
    [st EXCEPT !.log = Append(@, [key |-> key, threw |-> threw, value |-> value])]

\* translate up to its first await, lines 55-96: [st, cache]
TxTranslateCall(st, c, text, sourceLang, targetLang) ==
    LET key == CacheKey(text, sourceLang, targetLang)
    IN  IF ~Truthy(text) \/ Trim(text.str) = <<>>
        THEN [st |-> TxReturn(st, key, FALSE, text), cache |-> c]
        ELSE IF sourceLang \notin LanguageNames \/ targetLang \notin LanguageNames
        THEN [st |-> TxReturn(st, key, TRUE, Null), cache |-> c]
        ELSE IF sourceLang = targetLang
        THEN [st |-> TxReturn(st, key, FALSE, text), cache |-> c]
        ELSE LET got == CacheGet(c, key)
             IN  IF Truthy(got.value)
                 THEN [st |-> TxReturn(st, key, FALSE, got.value), cache |-> got.cache]
                 ELSE [st |-> [st EXCEPT !.pending = Append(@, key),
                                         !.requests = Append(@, key)],
                       cache |-> got.cache]

\* translate after the await of line 96, lines 96-111: [st, cache]
TxTranslateSettle(st, c, i, reply) ==
    LET key == st.pending[i]
        left == [st EXCEPT !.pending = SubSeq(@, 1, i - 1) \o SubSeq(@, i + 1, Len(@))]
        content == ReplyFor(key[3].str, key[2], reply)
    IN  IF reply = "fail" \/ content = <<>>
        THEN [st |-> TxReturn(left, key, TRUE, Null), cache |-> c]
        ELSE LET translated == Str(Trim(content))
                 evicts == Len(c) = CacheSize /\ \A k \in 1..Len(c) : c[k].key # key
             IN  [st |-> [TxReturn(left, key, FALSE, translated)
                          EXCEPT !.evicted = @ \/ evicts],
                  cache |-> CacheSet(c, key, translated)]

InitTX ==
    /\ RelayIdle
    /\ RtIdle
    /\ config = ConfigDefault
    /\ cb = Off
    /\ sb = Off
    /\ resp = Off
    /\ ts = [pc |-> "concurrent", pending |-> <<>>, requests |-> <<>>, log |-> <<>>,
             evicted |-> FALSE]
    /\ tc = Off

\* translationService.translate(text, sourceLang, targetLang), not awaited
TxCall ==
    /\ ts.pc = "concurrent"
    /\ Len(ts.log) + Len(ts.pending) < MaxTxCalls
    /\ \E text \in TxTexts, sourceLang \in TsLangs, targetLang \in TsLangs :
        LET r == TxTranslateCall(ts, cache, text, sourceLang, targetLang)
        IN  /\ ts' = r.st
            /\ cache' = r.cache
    /\ UNCHANGED <<relayVars, rtCallVars, config, cb, sb, resp, tc>>

\* The upstream answers the request of a suspended call, or the request fails
TxSettle ==
    /\ ts.pc = "concurrent"
    /\ \E i \in 1..Len(ts.pending), reply \in TxReplies :
        LET r == TxTranslateSettle(ts, cache, i, reply)
        IN  /\ ts' = r.st
            /\ cache' = r.cache
    /\ UNCHANGED <<relayVars, rtCallVars, config, cb, sb, resp, tc>>

NextTX ==
    \/ TxCall
    \/ TxSettle

SpecTX == InitTX /\ [][NextTX]_vars

\* C39: under any interleaving of translate calls sharing the cache, and while
\* no entry has been evicted (none expires here), at most one upstream request is
\* issued for a given text and pair of languages, and all calls for it that
\* return give the same string.
C39_OneRequestPerKey ==
    ts.pc = "concurrent" /\ ~ts.evicted =>
        /\ \A i, j \in 1..Len(ts.requests) : ts.requests[i] = ts.requests[j] => i = j
        /\ \A i, j \in 1..Len(ts.log) :
            /\ ts.log[i].key = ts.log[j].key
            /\ ~ts.log[i].threw
            /\ ~ts.log[j].threw
            => ts.log[i].value = ts.log[j].value

-----------------------------------------------------------------------------
(* Texts made of code: _translateText and _translateSentence on one text *)

MaxCoParts == 4

\* The pieces of the texts: a Chinese character, a Latin letter, a blank, a
\* back-tick, a fence
CoPieces == {<<"z">>, <<"a">>, <<" ">>, <<"BT">>, Fence}

CoTexts == {Str(Concat(ps)) : ps \in UNION {[1..n -> CoPieces] : n \in 1..MaxCoParts}}

\* codeBlockProtector.isCodeOnly, lines 76-85
isCodeOnly(text) ==
    IF ~Truthy(text) \/ ~IsString(text) THEN FALSE
    ELSE LET withoutPlaceholders ==
                Trim(SelectSeq(extract(text).cleanText.str, LAMBDA tok : ~IsPlaceholderKey(tok)))
         IN  withoutPlaceholders = <<>>

\* _translateSentence reaches translationService.translate, part_001 lines 187-204
TranslateSentenceCalls(sentence) ==
    Truthy(sentence) /\ Trim(extract(sentence).cleanText.str) # <<>>

InitCO ==
    /\ RelayIdle
    /\ RtIdle
    /\ config = ConfigDefault
    /\ cb \in {[pc |-> "codeText", text |-> t] : t \in CoTexts}
    /\ sb = Off
    /\ resp = Off
    /\ ts = Off
    /\ tc = Off

\* await requestTranslator._translateText(text)
CoTranslateText ==
    /\ cb.pc = "codeText"
    /\ \E reply \in Replies :
        LET r == TranslateText(cb.text, reply, cache)
        IN  /\ cb' = [pc |-> "translatedText", text |-> cb.text, value |-> r.value,
                      called |-> r.called]
            /\ cache' = r.cache
    /\ UNCHANGED <<relayVars, rtCallVars, config, sb, resp, ts, tc>>

\* await responseTranslator._translateSentence(text)
CoTranslateSentence ==
    /\ cb.pc = "codeText"
    /\ \E reply \in Replies :
        LET r == TranslateSentence(cb.text, reply, cache)
        IN  /\ cb' = [pc |-> "translatedSentence", text |-> cb.text, value |-> r.value,
                      called |-> TranslateSentenceCalls(cb.text)]
            /\ cache' = r.cache
    /\ UNCHANGED <<relayVars, rtCallVars, config, sb, resp, ts, tc>>

NextCO ==
    \/ CoTranslateText
    \/ CoTranslateSentence

SpecCO == InitCO /\ [][NextCO]_vars

\* C40: a text that is only code (isCodeOnly), with or without Chinese characters
\* in the code, is returned unchanged by _translateText and _translateSentence,
\* and the translation service is not called for it.
C40_CodeOnlyNotTranslated ==
    cb.pc \in {"translatedText", "translatedSentence"} /\ isCodeOnly(cb.text)
        => cb.value = cb.text /\ ~cb.called

====
